---- MODULE Spec2Model ----
(***************************************************************************)
(* Model of the market-data pipeline of telegram-AI-summarizer-bot:        *)
(*   - fetchSeries (internal/finance/fetch.go): host/attempt/schema retry  *)
(*   - filterNonNegative / filterIQR (series cleaner)                      *)
(*   - cacheGet / cacheSet (internal/finance/chart_cache.go)               *)
(*   - MakePortfolioChart / fetchPortfolioAssets / MakeMultiChart          *)
(*   - calculateWeightedPortfolio (internal/finance/portfolio_calc.go)     *)
(* Prices are integers; quotients are kept as exact fractions.             *)
(***************************************************************************)
EXTENDS Integers, Sequences, FiniteSets, TLC

VARIABLES
    \* ---- one call of fetchSeries ----
    fpc,        \* position in fetchSeries: "primary", "primary_sleep", "spark", "spark_sleep", "done"
    attempt,    \* loop variable `attempt` of the running schema loop
    hostIdx,    \* index into `hosts` of the next request (1-based)
    lastErr,    \* `lastErr`: Nil or the error recorded by a request
    fresult,    \* Nil until return; then [ts, cl, err]
    yc,         \* `yc.Chart.Result`: what the primary responses were decoded into
    sp,         \* `sp.Spark.Result`: what the spark responses were decoded into
    flog,       \* history: the requests and sleeps of this call, in order
    \* ---- concurrently handled requests and the artifact cache ----
    chartCache, \* `chartCache`: key -> Nil or [createdAt, image]
    chartCacheMu, \* `chartCacheMu`: the set of requests holding the mutex (empty when unlocked)
    now,        \* wall clock, seconds
    req,        \* per request: the call and its arguments
    rpc,        \* per request: position
    rsym,       \* per request: index of the symbol being fetched
    rassets,    \* per request: `assets` / `arr` accumulated so far
    rfound,     \* per request: what cacheGet returned ([img, found]) or Nil
    rout,       \* per request: Nil until the call returns; then [img, err]
    rlog,       \* per request history: fetch starts/returns, sleeps, cache ops, backtests
    lastSetAt,  \* history: key -> time of the most recent cacheSet
    menu,       \* the calls that chat commands may make in this run
    \* ---- one call of calculateWeightedPortfolio ----
    cpc,        \* "call" or "done"
    cin,        \* the arguments: [numDays, prices, config]
    cout        \* Nil until return; then [err, values, returns, shares, cash]

fvars == <<fpc, attempt, hostIdx, lastErr, yc, sp, fresult, flog>>
rvars == <<chartCache, chartCacheMu, now, req, rpc, rsym, rassets, rfound, rout, rlog, lastSetAt, menu>>
cvars == <<cpc, cin, cout>>
vars == <<fpc, attempt, hostIdx, lastErr, yc, sp, fresult, flog,
          chartCache, chartCacheMu, now, req, rpc, rsym, rassets, rfound, rout, rlog, lastSetAt, menu,
          cpc, cin, cout>>

Nil == [nil |-> TRUE]

\* the values of a part of the state in the runs that do not exercise it
FIdle ==
    /\ fpc = "idle" /\ attempt = 0 /\ hostIdx = 1 /\ lastErr = Nil
    /\ yc = <<>> /\ sp = <<>> /\ fresult = Nil /\ flog = <<>>

RIdle ==
    /\ chartCache = <<>> /\ chartCacheMu = {} /\ now = 0 /\ req = <<>> /\ rpc = <<>>
    /\ rsym = <<>> /\ rassets = <<>> /\ rfound = <<>> /\ rout = <<>> /\ rlog = <<>>
    /\ lastSetAt = <<>> /\ menu = {}

CIdle == cpc = "idle" /\ cin = Nil /\ cout = Nil

(***************************************************************************)
(* Sequence helpers                                                        *)
(***************************************************************************)
Min(a, b) == IF a < b THEN a ELSE b

SetMin(S) == CHOOSE x \in S : \A y \in S : x <= y

RECURSIVE SortedSeqOf(_)
\* the elements of a finite set of integers, ascending
SortedSeqOf(S) ==
    IF S = {} THEN <<>>
    ELSE LET m == SetMin(S) IN <<m>> \o SortedSeqOf(S \ {m})

\* s restricted to the indices idx (an ascending sequence of indices)
Pick(s, idx) == [j \in 1..Len(idx) |-> s[idx[j]]]

RECURSIVE Insert(_, _)
Insert(x, s) ==
    IF s = <<>> THEN <<x>>
    ELSE IF x <= Head(s) THEN <<x>> \o s
    ELSE <<Head(s)>> \o Insert(x, Tail(s))

RECURSIVE SortFloat64s(_)
\* sort.Float64s: ascending
SortFloat64s(s) ==
    IF s = <<>> THEN <<>> ELSE Insert(Head(s), SortFloat64s(Tail(s)))

(***************************************************************************)
(* Series cleaner                                                          *)
(***************************************************************************)
\* the common prefix the filters work on when len(ts) != len(cl)
Truncate(ts, cl) ==
    LET n == Min(Len(ts), Len(cl))
    IN  [ts |-> SubSeq(ts, 1, n), cl |-> SubSeq(cl, 1, n)]

\* a faulty variant: keeps the points with a negative close
filterNonNegative_KeepsNegative(ts, cl) == Truncate(ts, cl)

\* filterNonNegative removes points where close < 0
filterNonNegative(ts, cl) ==
    LET t == Truncate(ts, cl)
        idx == SortedSeqOf({i \in 1..Len(t.cl) : ~(t.cl[i] < 0)})
    IN  [ts |-> Pick(t.ts, idx), cl |-> Pick(t.cl, idx)]

\* percentile(p) of the sorted vals, p = pn/pd, as a numerator over pd
percentile(vals, pn, pd) ==
    IF Len(vals) = 0 THEN 0
    ELSE IF pn <= 0 THEN vals[1] * pd
    ELSE IF pn >= pd THEN vals[Len(vals)] * pd
    ELSE LET posn == pn * (Len(vals) - 1)     \* pos = posn / pd
             lo == posn \div pd               \* int(pos), 0-based
             hi == lo + 1
             fracn == posn % pd               \* frac = fracn / pd
         IN  IF hi >= Len(vals) THEN vals[lo + 1] * pd
             ELSE vals[lo + 1] * (pd - fracn) + vals[hi + 1] * fracn

IQRDegenerate_NegativeOnly(iqr) == iqr < 0

\* `if iqr <= 0`: no spread between the quartiles, nothing is filtered
IQRDegenerate(iqr) == iqr <= 0

TooShort_Never(n, minPoints) == FALSE

\* `if len(cl) < minPoints`: short series are returned as they are
TooShort(n, minPoints) == n < minPoints

\* filterIQR with k = kn/kd; quartiles are numerators over 4
filterIQR(ts, cl, kn, kd, minPoints) ==
    LET t == Truncate(ts, cl)
    IN  IF TooShort(Len(t.cl), minPoints) THEN t
        ELSE
          LET vals == SortFloat64s(t.cl)
              q1 == percentile(vals, 1, 4)
              q3 == percentile(vals, 3, 4)
              iqr == q3 - q1
          IN  IF IQRDegenerate(iqr) THEN t
              ELSE
                LET lower == q1 * kd - kn * iqr     \* over 4*kd
                    upper == q3 * kd + kn * iqr
                    idx == SortedSeqOf({i \in 1..Len(t.cl) :
                               ~(t.cl[i] * 4 * kd < lower \/ t.cl[i] * 4 * kd > upper)})
                IN  IF Len(idx) < minPoints \div 2 THEN t
                    ELSE [ts |-> Pick(t.ts, idx), cl |-> Pick(t.cl, idx)]

IQRMinPoints == 20

\* the two filters every successful return of fetchSeries applies
Clean(ts, cl) ==
    LET a == filterNonNegative(ts, cl)
    IN  filterIQR(a.ts, a.cl, 3, 2, IQRMinPoints)

(***************************************************************************)
(* Inputs of the fetcher: the series a provider response may carry and the *)
(* responses an HTTP request may get                                       *)
(***************************************************************************)
MaxLen == 2
CloseVals == {-1, 0, 2}

Stamps(n) == [i \in 1..n |-> 86400 * i]

\* short series: as many timestamps as closes or one more, and one series
\* with fewer timestamps than closes
ShortSeries ==
    UNION {{[ts |-> Stamps(n), cl |-> c] :
               n \in {k \in 0..MaxLen : k - Len(c) \in {0, 1}}} :
           c \in UNION {[1..m -> CloseVals] : m \in 0..MaxLen}}
    \cup {[ts |-> Stamps(1), cl |-> <<2, 0>>]}

\* series long enough for the IQR filter to act, with one special value x
LongSeries ==
    {[ts |-> Stamps(n), cl |-> [i \in 1..n |-> IF i = 7 THEN x ELSE 10 + (i % 5)]] :
        n \in {IQRMinPoints, IQRMinPoints + 1}, x \in {-4, 12, 900}}

Series == ShortSeries \cup LongSeries

\* `chart.result` of a yahooChartResp
ChartResults ==
    {<<>>, <<[timestamp |-> Stamps(1), quote |-> <<>>]>>}
    \cup {<<[timestamp |-> s.ts, quote |-> <<[close |-> s.cl]>>]>> : s \in Series}

\* `spark.result` of a yahooSparkResp
SparkResults ==
    {<<>>, <<[response |-> <<>>]>>}
    \cup {<<[response |-> <<[timestamp |-> s.ts, close |-> s.cl]>>]>> : s \in Series}

\* what a JSON document with a value of the wrong type (a string among the
\* closes) leaves behind: the rest of the document, the bad close left at 0
PartialChart == <<[timestamp |-> Stamps(2), quote |-> <<[close |-> <<2, 0>>]>>]>>
PartialSpark == <<[response |-> <<[timestamp |-> Stamps(2), close |-> <<2, 0>>]>>]>>

\* response bodies: rate-limit banner, other "Edge:" text, HTML, non-JSON text,
\* JSON documents carrying `chart.result` or `spark.result` (has names the key
\* the document carries; the other key is absent from it), and JSON documents
\* of either kind in which one close has the wrong type
Bodies ==
    {[k |-> "edge429"], [k |-> "edge"], [k |-> "html"], [k |-> "garbage"]}
    \cup {[k |-> "json", has |-> "chart", chart |-> c, spark |-> <<>>] : c \in ChartResults}
    \cup {[k |-> "json", has |-> "spark", chart |-> <<>>, spark |-> s] : s \in SparkResults}
    \cup {[k |-> "jsontype", has |-> "chart", chart |-> PartialChart, spark |-> <<>>],
          [k |-> "jsontype", has |-> "spark", chart |-> <<>>, spark |-> PartialSpark]}

Statuses == {200, 429, 500}

\* bodies of the responses whose status is not 200: only the prefix is read
ErrorBodies == {[k |-> "edge429"], [k |-> "html"]}

\* what http.DefaultClient.Do and io.ReadAll give for one request
Responses ==
    {[t |-> "neterr"], [t |-> "readerr"]}
    \cup {[t |-> "http", status |-> 200, body |-> b] : b \in Bodies}
    \cup {[t |-> "http", status |-> st, body |-> b] :
              st \in Statuses \ {200}, b \in ErrorBodies}

HasPrefixTooMany(b) == b.k = "edge429"
HasPrefixEdge(b) == b.k \in {"edge429", "edge"}
HasPrefixLt(b) == b.k = "html"
UnmarshalOK(b) == b.k = "json"

\* json.Unmarshal(body, &v) on a body that is syntactically JSON: the keys the
\* document carries are stored, also when a type error is reported at the end;
\* a key that is absent leaves what an earlier response was decoded into
DecodeInto(old, b, key) ==
    IF b.has # key THEN old
    ELSE IF key = "chart" THEN b.chart ELSE b.spark

\* the body reaches the decoder's second pass only when it is valid JSON
IsJSON(b) == b.k \in {"json", "jsontype"}

(***************************************************************************)
(* fetchSeries                                                             *)
(***************************************************************************)
hosts == <<"query1.finance.yahoo.com", "query2.finance.yahoo.com">>
backoffs == <<200, 500, 1000>>

MaxAttempts_OneMore == Len(backoffs) + 2

\* the loop bound `len(backoffs)+1` of both schema loops
MaxAttempts == Len(backoffs) + 1

\* number of requests already issued in this call
NumReq(lg) == Cardinality({i \in 1..Len(lg) : lg[i].ev = "req"})

\* the error a failed request creates; n is the serial number of the request
MkErr(kind, schema) ==
    [kind |-> kind, schema |-> schema, host |-> hosts[hostIdx], n |-> NumReq(flog) + 1]

\* classification of a primary response: "ok" or the kind of error recorded
PrimaryKind(r) ==
    IF r.t = "neterr" THEN "transport"
    ELSE IF r.t = "readerr" THEN "read"
    ELSE IF r.status = 429 \/ HasPrefixTooMany(r.body) THEN "ratelimit"
    ELSE IF r.status # 200 THEN "status"
    ELSE IF HasPrefixLt(r.body) \/ HasPrefixEdge(r.body) THEN "nonjson"
    ELSE IF ~UnmarshalOK(r.body) THEN "parse"
    ELSE "ok"

\* classification of a spark response: "ok" means decoded (result may be empty)
SparkKind(r) ==
    IF r.t = "neterr" THEN "transport"
    ELSE IF r.t = "readerr" THEN "read"
    ELSE IF r.status = 429 \/ HasPrefixTooMany(r.body) THEN "ratelimit"
    ELSE IF r.status # 200 THEN "status"
    ELSE IF HasPrefixLt(r.body) THEN "nonjson"
    ELSE IF ~UnmarshalOK(r.body) THEN "parse"
    ELSE "ok"

RecordErr_KeepFirst(old, new) == IF old = Nil THEN new ELSE old

\* `lastErr = err` of a failed request
RecordErr(old, new) == new

ClearErr_Keep(old) == old

\* `lastErr = nil` of a successful primary request
ClearErr(old) == Nil

BreakAttempts_Never(le) == FALSE

\* `if lastErr == nil { break }` after the host loop of the primary schema
BreakAttempts(le) == le = Nil

\* `len(sp.Spark.Result) > 0 && len(sp.Spark.Result[0].Response) > 0`
SparkHasResult(result) == Len(result) > 0 /\ Len(result[1].response) > 0

\* `len(yc.Chart.Result) == 0 || len(yc.Chart.Result[0].Indicators.Quote) == 0`
ChartHasNoData(y) == Len(y) = 0 \/ Len(y[1].quote) = 0

PrimaryReturn_EmptySeries(y) == [ts |-> <<>>, cl |-> <<>>, err |-> Nil]

\* the tail of fetchSeries: "no data" or the cleaned primary series
PrimaryReturn(y) ==
    IF ChartHasNoData(y)
    THEN [ts |-> <<>>, cl |-> <<>>, err |-> [kind |-> "nodata"]]
    ELSE LET c == Clean(y[1].timestamp, y[1].quote[1].close)
         IN  [ts |-> c.ts, cl |-> c.cl, err |-> Nil]

\* the successful return from inside the spark loop
SparkReturn(result) ==
    LET c == Clean(result[1].response[1].timestamp, result[1].response[1].close)
    IN  [ts |-> c.ts, cl |-> c.cl, err |-> Nil]

\* what the document of a successful request carried under the key of the
\* schema: nothing (the key is absent), an empty list, or data
Carried(b, key) ==
    IF b.has # key THEN "absent"
    ELSE IF key = "chart" THEN (IF ChartHasNoData(b.chart) THEN "empty" ELSE "data")
    ELSE (IF SparkHasResult(b.spark) THEN "data" ELSE "empty")

ReqEvent(schema, res, doc) ==
    [ev |-> "req", schema |-> schema, attempt |-> attempt, host |-> hostIdx,
     res |-> res, doc |-> doc]
SleepEvent(schema) ==
    [ev |-> "sleep", schema |-> schema, attempt |-> attempt, ms |-> backoffs[attempt + 1]]

Goto(p, a, h) == fpc' = p /\ attempt' = a /\ hostIdx' = h
Return(res) == fpc' = "done" /\ fresult' = res /\ UNCHANGED <<attempt, hostIdx>>

\* after the spark loop: `if lastErr != nil { return nil, nil, lastErr }`, else the tail
SparkExit(le, y) ==
    IF le # Nil THEN Return([ts |-> <<>>, cl |-> <<>>, err |-> le])
    ELSE Return(PrimaryReturn(y))

\* after the primary loop: `if lastErr != nil` enters the spark loop, else the tail
PrimaryExit(le, y) ==
    IF le # Nil
    THEN IF 0 < MaxAttempts /\ le # Nil
         THEN Goto("spark", 0, 1) /\ fresult' = Nil
         ELSE SparkExit(le, y)
    ELSE Return(PrimaryReturn(y))

\* `attempt++` and the loop condition of the primary loop
PrimaryNextAttempt(le, y) ==
    IF attempt + 1 < MaxAttempts
    THEN Goto("primary", attempt + 1, 1) /\ fresult' = Nil
    ELSE PrimaryExit(le, y)

\* `attempt++` and the loop condition `attempt < len(backoffs)+1 && lastErr != nil`
SparkNextAttempt(le, y) ==
    IF attempt + 1 < MaxAttempts /\ le # Nil
    THEN Goto("spark", attempt + 1, 1) /\ fresult' = Nil
    ELSE SparkExit(le, y)

\* one request of the primary loop and the control flow up to the next
\* request, sleep or return
PrimaryRequestOn(answers) ==
    /\ UNCHANGED <<rvars, cvars>>
    /\ fpc = "primary"
    /\ \E r \in answers :
         LET kind == PrimaryKind(r)
             ok == kind = "ok"
             le == IF ok THEN ClearErr(lastErr)
                   ELSE RecordErr(lastErr, MkErr(kind, "primary"))
             y == IF kind \in {"ok", "parse"} /\ IsJSON(r.body)
                  THEN DecodeInto(yc, r.body, "chart") ELSE yc
         IN  /\ lastErr' = le
             /\ yc' = y
             /\ sp' = sp
             /\ flog' = Append(flog, IF ok THEN ReqEvent("primary", "ok", Carried(r.body, "chart"))
                                            ELSE ReqEvent("primary", "err", "none"))
             /\ IF ~ok /\ hostIdx < Len(hosts)
                THEN Goto("primary", attempt, hostIdx + 1) /\ fresult' = Nil
                ELSE IF BreakAttempts(le) THEN PrimaryExit(le, y)
                ELSE IF attempt < Len(backoffs)
                     THEN Goto("primary_sleep", attempt, hostIdx) /\ fresult' = Nil
                     ELSE PrimaryNextAttempt(le, y)

\* a primary request answered by any of the responses
PrimaryRequest == PrimaryRequestOn(Responses)

PrimaryBackoff_NeverWakes == fpc = "primary_sleep" /\ FALSE /\ UNCHANGED vars

\* `time.Sleep(backoffs[attempt])` of the primary loop
PrimaryBackoff ==
    /\ UNCHANGED <<rvars, cvars>>
    /\ fpc = "primary_sleep"
    /\ flog' = Append(flog, SleepEvent("primary"))
    /\ PrimaryNextAttempt(lastErr, yc)
    /\ UNCHANGED <<lastErr, yc, sp>>

\* one request of the spark loop and the control flow up to the next
\* request, sleep or return
SparkRequestOn(answers) ==
    /\ UNCHANGED <<rvars, cvars>>
    /\ fpc = "spark"
    /\ \E r \in answers :
         LET kind == SparkKind(r)
             decoded == kind = "ok"
             s == IF kind \in {"ok", "parse"} /\ IsJSON(r.body)
                  THEN DecodeInto(sp, r.body, "spark") ELSE sp
             found == decoded /\ SparkHasResult(s)
             le == IF decoded THEN lastErr
                   ELSE RecordErr(lastErr, MkErr(kind, "spark"))
         IN  /\ lastErr' = le
             /\ yc' = yc
             /\ sp' = s
             /\ flog' = Append(flog,
                           IF found THEN ReqEvent("spark", "ok", Carried(r.body, "spark"))
                           ELSE ReqEvent("spark", IF decoded THEN "empty" ELSE "err", "none"))
             /\ IF found THEN Return(SparkReturn(s))
                ELSE IF hostIdx < Len(hosts)
                THEN Goto("spark", attempt, hostIdx + 1) /\ fresult' = Nil
                ELSE IF attempt < Len(backoffs)
                     THEN Goto("spark_sleep", attempt, hostIdx) /\ fresult' = Nil
                     ELSE SparkNextAttempt(le, yc)

\* a spark request answered by any of the responses
SparkRequest == SparkRequestOn(Responses)

\* `time.Sleep(backoffs[attempt])` of the spark loop
SparkBackoff ==
    /\ UNCHANGED <<rvars, cvars>>
    /\ fpc = "spark_sleep"
    /\ flog' = Append(flog, SleepEvent("spark"))
    /\ SparkNextAttempt(lastErr, yc)
    /\ UNCHANGED <<lastErr, yc, sp>>

(***************************************************************************)
(* parsePortfolioWindow                                                    *)
(***************************************************************************)
MaxDigits == 3

DigitChars == <<"0", "1", "2", "3", "4", "5", "6", "7", "8", "9">>
UnitChars == {"d", "w", "m", "y", "Y", "q"}

IsDigit(c) == \E i \in 1..Len(DigitChars) : DigitChars[i] = c
DigitValue(c) == (CHOOSE i \in 1..Len(DigitChars) : DigitChars[i] = c) - 1

RECURSIVE DecimalValue(_)
\* the number a string of decimal digits denotes
DecimalValue(ds) ==
    IF ds = <<>> THEN 0 ELSE 10 * DecimalValue(SubSeq(ds, 1, Len(ds) - 1)) + DigitValue(ds[Len(ds)])

\* fmt.Sscanf(s, "%d", &n) on a string of digits: an error when there is no digit
ScanInt(s) ==
    IF s = <<>> \/ ~IsDigit(s[1]) THEN [ok |-> FALSE, val |-> 0]
    ELSE [ok |-> TRUE, val |-> DecimalValue(s)]

\* strings.ToLower on the characters of a window
LowerChar(c) == IF c = "Y" THEN "y" ELSE c

WinOut(r, d) == [err |-> Nil, range |-> r, days |-> d]

\* the range code of an n-day window
DaysRange(n) ==
    IF n <= 5 THEN "5d" ELSE IF n <= 30 THEN "1mo" ELSE IF n <= 90 THEN "3mo" ELSE "1y"

\* the range code of an n-week window
WeeksRange(n) ==
    IF n <= 1 THEN "5d" ELSE IF n <= 4 THEN "1mo" ELSE IF n <= 12 THEN "3mo"
    ELSE IF n <= 26 THEN "6mo" ELSE "1y"

\* the range code of an n-month window
MonthsRange(n) ==
    IF n <= 1 THEN "1mo" ELSE IF n <= 3 THEN "3mo" ELSE IF n <= 6 THEN "6mo"
    ELSE IF n <= 12 THEN "1y" ELSE IF n <= 24 THEN "2y" ELSE "5y"

\* the range code of an n-year window
YearsRange(n) ==
    IF n <= 1 THEN "1y" ELSE IF n <= 2 THEN "2y" ELSE IF n <= 5 THEN "5y"
    ELSE IF n <= 10 THEN "10y" ELSE "max"

\* parsePortfolioWindow on the characters of the window
parsePortfolioWindow(window) ==
    IF window = <<>> THEN WinOut("1y", 365)
    ELSE LET w == [i \in 1..Len(window) |-> LowerChar(window[i])]
             unit == w[Len(w)]
             num == ScanInt(SubSeq(w, 1, Len(w) - 1))
         IN  CASE unit = "d" ->
                    IF ~num.ok THEN WinOut("1mo", 30) ELSE WinOut(DaysRange(num.val), num.val)
               [] unit = "w" ->
                    IF ~num.ok THEN WinOut("1mo", 21) ELSE WinOut(WeeksRange(num.val), num.val * 7)
               [] unit = "m" ->
                    IF ~num.ok THEN WinOut("1y", 365) ELSE WinOut(MonthsRange(num.val), num.val * 30)
               [] unit = "y" ->
                    IF ~num.ok THEN WinOut("1y", 365) ELSE WinOut(YearsRange(num.val), num.val * 365)
               [] OTHER -> [err |-> [msg |-> "invalid window format"], range |-> "", days |-> 0]

\* the windows of the calls: empty, or up to MaxDigits digits and a unit
WindowInputs(in) ==
    \/ in = [window |-> <<>>]
    \/ \E n \in 0..MaxDigits : \E ds \in [1..n -> {DigitChars[i] : i \in 1..Len(DigitChars)}] :
          \E u \in UnitChars : in = [window |-> ds \o <<u>>]

\* one call of parsePortfolioWindow on the chosen window
ParseWindow ==
    /\ cpc = "call"
    /\ cpc' = "done"
    /\ cout' = parsePortfolioWindow(cin.window)
    /\ UNCHANGED <<cin, fvars, rvars>>

InitWindow == cpc = "call" /\ cout = Nil /\ WindowInputs(cin) /\ FIdle /\ RIdle
NextWindow == ParseWindow
SpecWindow == InitWindow /\ [][NextWindow]_vars

(***************************************************************************)
(* filterToTargetDays                                                      *)
(***************************************************************************)
MaxPoints == 3

\* targetDays*24*3600: the seconds of a day
DaySeconds == 24 * 3600

\* ascending series of up to MaxPoints points, at most five days long, with
\* the price of point i being 100 + i
TrimTimelines ==
    UNION {{t \in [1..n -> {d * DaySeconds : d \in 0..5}] :
               \A i \in 1..(n - 1) : t[i] <= t[i + 1]} : n \in 0..MaxPoints}
TrimInputs(in) ==
    \E t \in TrimTimelines, td \in -1..4 :
        in = [timestamps |-> t, prices |-> [i \in 1..Len(t) |-> 100 + i], targetDays |-> td]

\* the index of the first timestamp >= cutoff (0-based startIdx, 0 if none)
StartIdx(timestamps, cutoff) ==
    LET hit == {i \in 1..Len(timestamps) : timestamps[i] >= cutoff}
    IN  IF hit = {} THEN 0 ELSE SetMin(hit) - 1

\* filterToTargetDays
filterToTargetDays(timestamps, prices, targetDays) ==
    IF Len(timestamps) = 0 \/ targetDays <= 0 THEN [ts |-> timestamps, prices |-> prices]
    ELSE IF Len(timestamps) <= targetDays THEN [ts |-> timestamps, prices |-> prices]
    ELSE LET latest == timestamps[Len(timestamps)]
             cutoff == latest - targetDays * DaySeconds
             start == StartIdx(timestamps, cutoff)
         IN  [ts |-> SubSeq(timestamps, start + 1, Len(timestamps)),
              prices |-> SubSeq(prices, start + 1, Len(prices))]

\* one call of filterToTargetDays on the chosen arguments
Trim ==
    /\ cpc = "call"
    /\ cpc' = "done"
    /\ cout' = filterToTargetDays(cin.timestamps, cin.prices, cin.targetDays)
    /\ UNCHANGED <<cin, fvars, rvars>>

InitTrim == cpc = "call" /\ cout = Nil /\ TrimInputs(cin) /\ FIdle /\ RIdle
NextTrim == Trim
SpecTrim == InitTrim /\ [][NextTrim]_vars

(***************************************************************************)
(* Chat requests: MakePortfolioChart (cached, fetchPortfolioAssets) and    *)
(* MakeMultiChart, each handled on its own goroutine, and the chart cache  *)
(***************************************************************************)
AllSymbols == <<"SPY", "AAPL", "QQQ", "VTI">>
MaxSymbols == 2
MaxClock == 60

\* const chartCacheTTL = 60 * time.Second
chartCacheTTL == 60

\* the clock advances in thirds of the TTL
TickStep == chartCacheTTL \div 3

\* time.Sleep(120 * time.Millisecond) between the symbols of MakeMultiChart
MultiChartDelayMs == 120

SymbolLists == {SubSeq(AllSymbols, 1, n) : n \in 0..MaxSymbols}
\* window strings, as their characters: a valid one and one with an unknown unit
Windows == {<<"1", "y">>, <<"1", "q">>}

\* the calls of MakePortfolioChart and of MakeMultiChart a chat command may make
PortfolioInputs ==
    {[kind |-> "portfolio", symbols |-> sl, window |-> w] : sl \in SymbolLists, w \in Windows}
MultiInputs ==
    {[kind |-> "multi", symbols |-> sl, window |-> <<"1", "y">>] : sl \in SymbolLists}
ReqInputs == PortfolioInputs \cup MultiInputs
\* the portfolio commands of the concurrent runs: two cacheable ones and one
\* with an invalid window
ConcurrentInputs ==
    {[kind |-> "portfolio", symbols |-> <<"SPY">>, window |-> <<"1", "y">>],
     [kind |-> "portfolio", symbols |-> <<"SPY", "AAPL">>, window |-> <<"1", "y">>],
     [kind |-> "portfolio", symbols |-> <<"SPY">>, window |-> <<"1", "q">>]}

RECURSIVE Join(_, _)
\* strings.Join
Join(elems, sep) ==
    IF Len(elems) = 0 THEN <<>>
    ELSE IF Len(elems) = 1 THEN <<elems[1]>>
    ELSE <<elems[1], sep>> \o Join(Tail(elems), sep)

\* fmt.Sprintf("portfolio-%s-%s", strings.Join(symbols, ","), window)
PortfolioKey(symbols, window) == <<"portfolio-">> \o Join(symbols, ",") \o <<"-">> \o window

\* weights are multiples of 1/WeightScale
WeightScale == 10000

\* the weight lists of a weighted request: every weight 0.3, or one of them
\* 0.3004 or 0.3006 instead
WeightLists(n) ==
    {[i \in 1..n |-> 3000]}
    \cup {[i \in 1..n |-> IF i = p THEN v ELSE 3000] : p \in 1..n, v \in {3004, 3006}}

\* the calls of MakeWeightedPortfolioChart: as many weights as symbols, and one
\* call with a weight too many
WeightedInputs ==
    {[kind |-> "wport", symbols |-> sl, weights |-> ws, window |-> w] :
        sl \in SymbolLists, ws \in UNION {WeightLists(n) : n \in 0..MaxSymbols}, w \in Windows}

RoundThousandths_Exact(w) == w

\* the thousandths `%.3f` prints for a weight: the nearest to it
RoundThousandths(w) == (2 * w + (WeightScale \div 1000)) \div (2 * (WeightScale \div 1000))

\* fmt.Sprintf("%.3f", w) for a weight 0 <= w < 10
FormatWeight(w) ==
    LET t == RoundThousandths(w)
    IN  <<DigitChars[(t \div 1000) + 1], ".", DigitChars[((t \div 100) % 10) + 1],
          DigitChars[((t \div 10) % 10) + 1], DigitChars[(t % 10) + 1]>>

RECURSIVE JoinSeqs(_, _)
\* strings.Join of strings given as character sequences
JoinSeqs(elems, sep) ==
    IF Len(elems) = 0 THEN <<>>
    ELSE IF Len(elems) = 1 THEN elems[1]
    ELSE elems[1] \o <<sep>> \o JoinSeqs(Tail(elems), sep)

\* fmt.Sprintf("wport-%s-%s-%s", strings.Join(symbols, ","),
\*             strings.Join(weightStrs, ","), window)
WeightedKey(symbols, weights, window) ==
    <<"wport-">> \o Join(symbols, ",") \o <<"-">>
    \o JoinSeqs([i \in 1..Len(weights) |-> FormatWeight(weights[i])], ",")
    \o <<"-">> \o window

\* fetchPortfolioAssets returns the error of parsePortfolioWindow
PortfolioWindowError(window) == parsePortfolioWindow(window).err # Nil

Fresh_AtTTL(t, createdAt) == t <= createdAt + chartCacheTTL

\* time.Now().Before(entry.createdAt.Add(chartCacheTTL))
Fresh(t, createdAt) == t < createdAt + chartCacheTTL

\* cacheGet's lookup: [img, found]
Lookup(cache, key, t) ==
    IF key \in DOMAIN cache /\ Fresh(t, cache[key].createdAt)
    THEN [img |-> cache[key].image, found |-> TRUE]
    ELSE [img |-> Nil, found |-> FALSE]

\* chartCache[key] = chartCacheEntry{createdAt: time.Now(), image: img}
Store(cache, key, t, img) ==
    [k \in DOMAIN cache \cup {key} |->
        IF k = key THEN [createdAt |-> t, image |-> img] ELSE cache[k]]

GetUnlock_OnMissOnly(r, found) == IF found THEN {r} ELSE {}

\* `defer chartCacheMu.Unlock()` of cacheGet: the holder after cacheGet returns
GetUnlock(r, found) == {}

FetchFailed_ErrOnly(res) == res = "err"

\* fetchPortfolioAssets gives up on `err != nil` and on an empty series
FetchFailed(res) == res \in {"err", "empty"}

\* what a fetchSeries call hands back to the symbol loop
FetchOutcomes == {"err", "empty", "data"}

Upd(f, r, v) == [f EXCEPT ![r] = v]
Log(r, e) == Upd(rlog, r, Append(rlog[r], e))
KeyOf(r) ==
    IF req[r].kind = "wport"
    THEN WeightedKey(req[r].symbols, req[r].weights, req[r].window)
    ELSE PortfolioKey(req[r].symbols, req[r].window)
\* the image a successful render of the request's call produces
Rendered(r) == [of |-> req[r]]

Finish(r, img, err) ==
    /\ rpc' = Upd(rpc, r, "returned")
    /\ rout' = Upd(rout, r, [img |-> img, err |-> err])

\* `len(symbols) != len(weights)` of MakeWeightedPortfolioChart
WeightsMismatch(in) == in.kind = "wport" /\ Len(in.symbols) # Len(in.weights)

\* a chat command arrives: the goroutine of request r enters the chart function.
\* MakePortfolioChart and MakeWeightedPortfolioChart go to cacheGet,
\* MakeMultiChart to its first fetchSeries.
Call(r) ==
    /\ rpc[r] \in {"idle", "returned"}
    /\ \E in \in menu :
        /\ req' = Upd(req, r, in)
        /\ rfound' = Upd(rfound, r, Nil)
        /\ rassets' = Upd(rassets, r, <<>>)
        /\ rsym' = Upd(rsym, r, 1)
        /\ IF Len(in.symbols) = 0
           THEN /\ rpc' = Upd(rpc, r, "returned")
                /\ rout' = Upd(rout, r, [img |-> Nil, err |-> [msg |-> "no symbols provided"]])
                /\ rlog' = Upd(rlog, r, <<>>)
           ELSE IF WeightsMismatch(in)
           THEN /\ rpc' = Upd(rpc, r, "returned")
                /\ rout' = Upd(rout, r, [img |-> Nil, err |-> [msg |-> "symbols and weights length mismatch"]])
                /\ rlog' = Upd(rlog, r, <<>>)
           ELSE IF in.kind \in {"portfolio", "wport"}
           THEN /\ rpc' = Upd(rpc, r, "cacheGet")
                /\ rout' = Upd(rout, r, Nil)
                /\ rlog' = Upd(rlog, r, <<>>)
           ELSE /\ rpc' = Upd(rpc, r, "fetching")
                /\ rout' = Upd(rout, r, Nil)
                /\ rlog' = Upd(rlog, r, <<[ev |-> "fetch", sym |-> 1]>>)
    /\ UNCHANGED <<chartCache, chartCacheMu, now, lastSetAt, menu, fvars, cvars>>

\* chartCacheMu.Lock() in cacheGet
CacheGetLock(r) ==
    /\ rpc[r] = "cacheGet"
    /\ chartCacheMu = {}
    /\ chartCacheMu' = {r}
    /\ rpc' = Upd(rpc, r, "cacheGet_locked")
    /\ UNCHANGED <<chartCache, now, lastSetAt, req, rsym, rassets, rfound, rout, rlog, menu, fvars, cvars>>

\* the body of cacheGet and its deferred Unlock, then MakePortfolioChart up to
\* its return (hit, or window error) or to the first fetchSeries call
CacheGetBody(r) ==
    /\ rpc[r] = "cacheGet_locked"
    /\ LET got == Lookup(chartCache, KeyOf(r), now)
       IN  /\ chartCacheMu' = GetUnlock(r, got.found)
           /\ rfound' = Upd(rfound, r,
                  [found |-> got.found, img |-> got.img, at |-> now,
                   setAt |-> IF KeyOf(r) \in DOMAIN lastSetAt THEN lastSetAt[KeyOf(r)] ELSE -1])
           /\ IF got.found
              THEN /\ Finish(r, got.img, Nil)
                   /\ rlog' = Log(r, [ev |-> "hit"])
                   /\ UNCHANGED rassets
              ELSE IF PortfolioWindowError(req[r].window)
              THEN /\ Finish(r, Nil, [msg |-> "failed to fetch assets: invalid window format"])
                   /\ rlog' = Log(r, [ev |-> "miss"])
                   /\ rassets' = Upd(rassets, r, Nil)
              ELSE /\ rpc' = Upd(rpc, r, "fetching")
                   /\ rlog' = Upd(rlog, r, rlog[r] \o <<[ev |-> "miss"], [ev |-> "fetch", sym |-> 1]>>)
                   /\ UNCHANGED <<rout, rassets>>
    /\ UNCHANGED <<chartCache, now, lastSetAt, req, rsym, menu, fvars, cvars>>

\* fetchSeries returns to the symbol loop of fetchPortfolioAssets, which fails
\* the request, calls fetchSeries for the next symbol, or returns the assets
PortfolioFetchReturn(r) ==
    /\ rpc[r] = "fetching" /\ req[r].kind \in {"portfolio", "wport"}
    /\ \E res \in FetchOutcomes :
        LET i == rsym[r]
            ret == [ev |-> "fetchret", sym |-> i, res |-> res]
        IN  IF FetchFailed(res)
            THEN /\ Finish(r, Nil, [msg |-> "failed to fetch assets"])
                 /\ rassets' = Upd(rassets, r, Nil)
                 /\ rlog' = Log(r, ret)
                 /\ UNCHANGED rsym
            ELSE /\ rassets' = Upd(rassets, r, Append(rassets[r], req[r].symbols[i]))
                 /\ IF i < Len(req[r].symbols)
                    THEN /\ rsym' = Upd(rsym, r, i + 1)
                         /\ rlog' = Upd(rlog, r, rlog[r] \o <<ret, [ev |-> "fetch", sym |-> i + 1]>>)
                         /\ UNCHANGED <<rpc, rout>>
                    ELSE /\ rpc' = Upd(rpc, r, "compute")
                         /\ rlog' = Log(r, ret)
                         /\ UNCHANGED <<rsym, rout>>
    /\ UNCHANGED <<chartCache, chartCacheMu, now, lastSetAt, req, rfound, menu, fvars, cvars>>

\* fetchSeries returns to the symbol loop of MakeMultiChart: an error fails the
\* request, otherwise the series is appended and the goroutine sleeps
MultiFetchReturn(r) ==
    /\ rpc[r] = "fetching" /\ req[r].kind = "multi"
    /\ \E res \in FetchOutcomes :
        LET i == rsym[r]
            ret == [ev |-> "fetchret", sym |-> i, res |-> res]
        IN  /\ rlog' = Log(r, ret)
            /\ IF res = "err"
               THEN /\ Finish(r, Nil, [msg |-> "fetch failed"])
                    /\ rassets' = Upd(rassets, r, Nil)
               ELSE /\ rassets' = Upd(rassets, r, Append(rassets[r], req[r].symbols[i]))
                    /\ rpc' = Upd(rpc, r, "sleep")
                    /\ UNCHANGED rout
    /\ UNCHANGED <<chartCache, chartCacheMu, now, lastSetAt, req, rsym, rfound, menu, fvars, cvars>>

\* time.Sleep(120ms) of MakeMultiChart ends: next symbol, or on to the rendering
MultiSleep(r) ==
    /\ rpc[r] = "sleep"
    /\ LET i == rsym[r]
           sl == [ev |-> "sleep", ms |-> MultiChartDelayMs]
       IN  IF i < Len(req[r].symbols)
           THEN /\ rsym' = Upd(rsym, r, i + 1)
                /\ rlog' = Upd(rlog, r, rlog[r] \o <<sl, [ev |-> "fetch", sym |-> i + 1]>>)
                /\ rpc' = Upd(rpc, r, "fetching")
           ELSE /\ rpc' = Upd(rpc, r, "compute")
                /\ rlog' = Log(r, sl)
                /\ UNCHANGED rsym
    /\ UNCHANGED <<chartCache, chartCacheMu, now, lastSetAt, req, rassets, rfound, rout, menu, fvars, cvars>>

StageFailed_Never(ok) == FALSE

\* `if err != nil { return nil, fmt.Errorf(...) }` after each stage
StageFailed(ok) == ~ok

\* alignment, backtest, statistics and rendering on the fetched series: any of
\* them may fail (ok = FALSE); MakeMultiChart returns its image, MakePortfolioChart
\* goes on to cacheSet
Compute(r) ==
    /\ rpc[r] = "compute"
    /\ \E ok \in BOOLEAN :
        /\ rlog' = Log(r, [ev |-> "backtest", assets |-> rassets[r], ok |-> ok])
        /\ IF StageFailed(ok) THEN Finish(r, Nil, [msg |-> "failed to calculate portfolio"])
           ELSE IF req[r].kind = "multi" THEN Finish(r, Rendered(r), Nil)
           ELSE rpc' = Upd(rpc, r, "cacheSet") /\ UNCHANGED rout
    /\ UNCHANGED <<chartCache, chartCacheMu, now, lastSetAt, req, rsym, rassets, rfound, menu, fvars, cvars>>

\* chartCacheMu.Lock() in cacheSet
CacheSetLock(r) ==
    /\ rpc[r] = "cacheSet"
    /\ chartCacheMu = {}
    /\ chartCacheMu' = {r}
    /\ rpc' = Upd(rpc, r, "cacheSet_locked")
    /\ UNCHANGED <<chartCache, now, lastSetAt, req, rsym, rassets, rfound, rout, rlog, menu, fvars, cvars>>

\* the map write of cacheSet and its Unlock; MakePortfolioChart returns the image
CacheSetBody(r) ==
    /\ rpc[r] = "cacheSet_locked"
    /\ chartCache' = Store(chartCache, KeyOf(r), now, Rendered(r))
    /\ lastSetAt' = [k \in DOMAIN lastSetAt \cup {KeyOf(r)} |->
                        IF k = KeyOf(r) THEN now ELSE lastSetAt[k]]
    /\ chartCacheMu' = {}
    /\ rlog' = Log(r, [ev |-> "set"])
    /\ Finish(r, Rendered(r), Nil)
    /\ UNCHANGED <<now, req, rsym, rassets, rfound, menu, fvars, cvars>>

\* wall-clock time passes
Tick ==
    /\ now + TickStep <= MaxClock
    /\ now' = now + TickStep
    /\ UNCHANGED <<chartCache, chartCacheMu, lastSetAt, req, rpc, rsym, rassets, rfound, rout, rlog,
                   menu, fvars, cvars>>

\* process start: empty cache, free mutex, the goroutines R with no request in
\* progress, the calls M that chat commands may make
RInit(R, M) ==
    /\ chartCache = <<>> /\ chartCacheMu = {} /\ now = 0 /\ lastSetAt = <<>>
    /\ menu = M
    /\ req = [r \in R |-> Nil]
    /\ rpc = [r \in R |-> "idle"]
    /\ rsym = [r \in R |-> 1]
    /\ rassets = [r \in R |-> <<>>]
    /\ rfound = [r \in R |-> Nil]
    /\ rout = [r \in R |-> Nil]
    /\ rlog = [r \in R |-> <<>>]

(***************************************************************************)
(* Exact fractions: float64 quantities of the backtest, without rounding   *)
(***************************************************************************)
Abs(x) == IF x < 0 THEN -x ELSE x

RECURSIVE GCD(_, _)
GCD(a, b) == IF b = 0 THEN a ELSE GCD(b, a % b)

\* the fraction n/d (d # 0) in lowest terms with a positive denominator
Rat(n, d) ==
    LET g == GCD(Abs(n), Abs(d))
        sg == IF d < 0 THEN -1 ELSE 1
    IN  [n |-> sg * (n \div g), d |-> sg * (d \div g)]
RInt(x) == [n |-> x, d |-> 1]
RAdd(a, b) == Rat(a.n * b.d + b.n * a.d, a.d * b.d)
RSub(a, b) == Rat(a.n * b.d - b.n * a.d, a.d * b.d)
RMul(a, b) == Rat(a.n * b.n, a.d * b.d)
RDiv(a, b) == Rat(a.n * b.d, a.d * b.n)
RLess(a, b) == a.n * b.d < b.n * a.d
RAbs(a) == [n |-> Abs(a.n), d |-> a.d]

RECURSIVE RSum(_)
RSum(s) == IF s = <<>> THEN RInt(0) ELSE RAdd(Head(s), RSum(Tail(s)))

(***************************************************************************)
(* calculateWeightedPortfolio                                              *)
(***************************************************************************)
MaxAssets == 2
PriceVals == {-1, 0, 2, 3}
WeightVals == {Rat(-1, 2), Rat(2, 5), Rat(1, 1)}

\* the initial value the chart functions pass (100.0)
ChartInitialValue == 100

\* price vectors of one asset: two days, or one day only
PriceRows == UNION {[1..n -> PriceVals] : n \in 1..2}

\* *PortfolioConfig with k assets, or nil
Configs(k) ==
    {[Assets |-> a, InitialValue |-> ChartInitialValue] :
        a \in [1..k -> [Symbol : {"A"}, Weight : WeightVals]]}

\* arguments of a call: len(timestamps), assetPrices, config
CalcInputs(in) ==
    \E nd \in 0..2, k \in 0..MaxAssets, m \in 0..MaxAssets :
        \E pr \in [1..k -> PriceRows], c \in {Nil} \cup Configs(m) :
            /\ c = Nil => m = 0
            /\ in = [numDays |-> nd, prices |-> pr, config |-> c]

CalcErr(msg) ==
    [err |-> [msg |-> msg], values |-> <<>>, returns |-> <<>>, shares |-> <<>>, cash |-> RInt(0)]

NetWeight_Gross(assets) == RSum([i \in 1..Len(assets) |-> RAbs(assets[i].Weight)])

\* netWeight: the sum of the configured weights
NetWeight(assets) == RSum([i \in 1..Len(assets) |-> assets[i].Weight])

\* cashValue = initialValue * (1.0 - netWeight)
CashValue(config) ==
    RMul(RInt(config.InitialValue), RSub(RInt(1), NetWeight(config.Assets)))

\* shares[i] = (initialValue * weight) / assetPrices[i][0]
Shares(config, prices) ==
    [i \in 1..Len(prices) |->
        RDiv(RMul(RInt(config.InitialValue), config.Assets[i].Weight), RInt(prices[i][1]))]

\* portfolioValues: day 0 is the initial value, later days cash plus positions
PortfolioValues(numDays, prices, config) ==
    LET sh == Shares(config, prices)
        cash == CashValue(config)
    IN  [day \in 1..numDays |->
            IF day = 1 THEN RInt(config.InitialValue)
            ELSE RAdd(cash, RSum([i \in 1..Len(prices) |-> RMul(sh[i], RInt(prices[i][day]))]))]

\* portfolioReturns: (v[t] - v[t-1]) / v[t-1] when v[t-1] > 0, else 0
PortfolioReturns(values) ==
    [t \in 1..(Len(values) - 1) |->
        IF RLess(RInt(0), values[t])
        THEN RDiv(RSub(values[t + 1], values[t]), values[t])
        ELSE RInt(0)]

\* `if assetPrices[i][0] <= 0` of the share loop
InvalidInitialPrice(p) == p <= 0

InvalidLaterPrice_ZeroToo(p) == p <= 0

\* `if price < 0` of the day loop
InvalidLaterPrice(p) == p < 0

calculateWeightedPortfolio(numDays, prices, config) ==
    IF config = Nil THEN CalcErr("portfolio config is nil")
    ELSE IF numDays = 0 THEN CalcErr("no timestamps provided")
    ELSE IF Len(config.Assets) # Len(prices) THEN CalcErr("config assets don't match price data")
    ELSE IF \E i \in 1..Len(prices) : Len(prices[i]) # numDays
         THEN CalcErr("asset has wrong number of data points")
    ELSE IF numDays < 2 THEN CalcErr("need at least 2 data points")
    ELSE IF \E i \in 1..Len(prices) : InvalidInitialPrice(prices[i][1])
         THEN CalcErr("invalid initial price")
    ELSE IF \E day \in 2..numDays : \E i \in 1..Len(prices) : InvalidLaterPrice(prices[i][day])
         THEN CalcErr("invalid price")
    ELSE LET v == PortfolioValues(numDays, prices, config)
         IN  [err |-> Nil, values |-> v, returns |-> PortfolioReturns(v),
              shares |-> Shares(config, prices), cash |-> CashValue(config)]

\* one call of calculateWeightedPortfolio on the chosen arguments
Calculate ==
    /\ cpc = "call"
    /\ cpc' = "done"
    /\ cout' = calculateWeightedPortfolio(cin.numDays, cin.prices, cin.config)
    /\ UNCHANGED <<cin, fvars, rvars>>

CInit == cpc = "call" /\ cout = Nil /\ CalcInputs(cin)

InitCalc == CInit /\ FIdle /\ RIdle
NextCalc == Calculate
SpecCalc == InitCalc /\ [][NextCalc]_vars

(***************************************************************************)
(* calculateMaxDrawdown and calculatePortfolioStats                        *)
(***************************************************************************)
\* portfolio values: negative, zero and positive
ValueVals == {-1, 0, 1, 2, 4, 8}
ValueSeries == UNION {[1..n -> {RInt(v) : v \in ValueVals}] : n \in 0..MaxPoints}

DrawdownCounted_AnyValue(peak, value) == RLess(RInt(0), peak)

\* `if peak > 0 && value >= 0`: the values that enter the drawdown
DrawdownCounted(peak, value) == RLess(RInt(0), peak) /\ ~RLess(value, RInt(0))

\* the starting peak: values[0], or the first positive value when values[0] <= 0
StartPeak(values) ==
    IF RLess(RInt(0), values[1]) THEN values[1]
    ELSE LET pos == {i \in 2..Len(values) : RLess(RInt(0), values[i])}
         IN  IF pos = {} THEN values[1] ELSE values[SetMin(pos)]

RECURSIVE DrawdownLoop(_, _, _, _)
\* the loop over the values from index k on, with the running peak and maxDrawdown
DrawdownLoop(values, k, peak, maxDD) ==
    IF k > Len(values) THEN maxDD
    ELSE LET value == values[k]
             pk == IF RLess(peak, value) THEN value ELSE peak
             dd == IF DrawdownCounted(pk, value) THEN RDiv(RSub(pk, value), pk) ELSE RInt(0)
         IN  DrawdownLoop(values, k + 1, pk,
                          IF DrawdownCounted(pk, value) /\ RLess(maxDD, dd) THEN dd ELSE maxDD)

calculateMaxDrawdown(values) ==
    IF Len(values) < 2 THEN RInt(0)
    ELSE LET peak == StartPeak(values)
         IN  IF ~RLess(RInt(0), peak) THEN RInt(0)
             ELSE DrawdownLoop(values, 1, peak, RInt(0))

\* one call of calculateMaxDrawdown on the chosen values
Drawdown ==
    /\ cpc = "call"
    /\ cpc' = "done"
    /\ cout' = [maxDrawdown |-> calculateMaxDrawdown(cin.values)]
    /\ UNCHANGED <<cin, fvars, rvars>>

InitDrawdown ==
    /\ cpc = "call" /\ cout = Nil /\ FIdle /\ RIdle
    /\ \E v \in ValueSeries : cin = [values |-> v]
NextDrawdown == Drawdown
SpecDrawdown == InitDrawdown /\ [][NextDrawdown]_vars

\* the sign of a fraction: -1, 0 or 1
RSign(a) == IF a.n > 0 THEN 1 ELSE IF a.n < 0 THEN -1 ELSE 0

\* `return nil, err`: no statistics
StatsErr(msg) == [err |-> [msg |-> msg], stats |-> Nil]

NumDaysOf_Returns(portfolio) == Len(portfolio.Returns)

\* numDays := len(portfolio.Values)
NumDaysOf(portfolio) == Len(portfolio.Values)

\* meanDailyReturn
MeanReturn(returns) == RDiv(RSum(returns), RInt(Len(returns)))

\* the sample variance of the daily returns (N-1)
Variance(returns) ==
    LET mean == MeanReturn(returns)
    IN  RDiv(RSum([i \in 1..Len(returns) |->
                      RMul(RSub(returns[i], mean), RSub(returns[i], mean))]),
             RInt(Len(returns) - 1))

\* the sign of annualReturn: math.Pow(final/initial, 252/n) - 1 has the sign of
\* final/initial - 1; 0 when the guard on the values fails
AnnualReturnSign(initial, final) ==
    IF RLess(RInt(0), final) /\ RLess(RInt(0), initial)
    THEN RSign(RSub(RDiv(final, initial), RInt(1)))
    ELSE 0

\* the sign of sharpeRatio: annualReturn / annualVolatility when the volatility
\* (the square root of 252 times the variance) is > 0, else the zero value
SharpeSign(annualSign, variance, returns) ==
    IF RLess(RInt(0), variance) THEN annualSign ELSE 0

\* calculatePortfolioStats, with the annualised figures by their signs
calculatePortfolioStats(portfolio) ==
    IF portfolio = Nil \/ Len(portfolio.Values) < 2 THEN StatsErr("insufficient portfolio data")
    ELSE IF Len(portfolio.Returns) = 0 THEN StatsErr("no return data available")
    ELSE IF Len(portfolio.Returns) < 2 THEN StatsErr("need at least 2 return observations")
    ELSE LET initial == portfolio.Values[1]
             final == portfolio.Values[Len(portfolio.Values)]
         IN  IF initial = RInt(0) THEN StatsErr("invalid total return")
             ELSE LET var == Variance(portfolio.Returns)
                      ann == AnnualReturnSign(initial, final)
                  IN  [err |-> Nil,
                       stats |->
                          [TotalReturn |-> RMul(RDiv(RSub(final, initial), initial), RInt(100)),
                           variance |-> var,
                           AnnualReturnSign |-> ann,
                           SharpeSign |-> SharpeSign(ann, var, portfolio.Returns),
                           MaxDrawdown |-> RMul(calculateMaxDrawdown(portfolio.Values), RInt(100)),
                           NumDays |-> NumDaysOf(portfolio)]]

\* PortfolioData as the engine builds it: the returns follow from the values
StatsInputs(in) ==
    \/ in = [portfolio |-> Nil]
    \/ \E v \in ValueSeries : in = [portfolio |-> [Values |-> v, Returns |-> PortfolioReturns(v)]]

\* one call of calculatePortfolioStats on the chosen portfolio
Stats ==
    /\ cpc = "call"
    /\ cpc' = "done"
    /\ cout' = calculatePortfolioStats(cin.portfolio)
    /\ UNCHANGED <<cin, fvars, rvars>>

InitStats == cpc = "call" /\ cout = Nil /\ StatsInputs(cin) /\ FIdle /\ RIdle
NextStats == Stats
SpecStats == InitStats /\ [][NextStats]_vars

(***************************************************************************)
(* filterIQR on series around the minimum length                           *)
(***************************************************************************)
\* the closes of a series apart from one point: flat, a wave of five levels,
\* or two levels
IQRPatterns == {"flat", "wave", "step"}
IQRBase(pat, i) ==
    CASE pat = "flat" -> 10
      [] pat = "wave" -> 10 + (i % 5)
      [] pat = "step" -> IF i % 2 = 0 THEN 10 ELSE 20

\* the close of the one point: ordinary values and extreme ones
IQROddValues == {-4, 10, 12, 900, 1000, 1200, 1500}

\* series of 19, 20 or 21 points, the point at position p carrying the odd value
IQRInputs(in) ==
    \E n \in (IQRMinPoints - 1)..(IQRMinPoints + 1), pat \in IQRPatterns, x \in IQROddValues :
        \E p \in 1..n :
            in = [ts |-> Stamps(n), cl |-> [i \in 1..n |-> IF i = p THEN x ELSE IQRBase(pat, i)]]

\* one call of filterIQR(ts, cl, 1.5, 20)
Filter ==
    /\ cpc = "call"
    /\ cpc' = "done"
    /\ cout' = filterIQR(cin.ts, cin.cl, 3, 2, IQRMinPoints)
    /\ UNCHANGED <<cin, fvars, rvars>>

InitIQR == cpc = "call" /\ cout = Nil /\ IQRInputs(cin) /\ FIdle /\ RIdle
NextIQR == Filter
SpecIQR == InitIQR /\ [][NextIQR]_vars

(***************************************************************************)
(* alignTimestamps and findClosestPrice                                    *)
(***************************************************************************)
\* Unix seconds of the points, and their prices
AlignStamps == 1..3
AlignPrices == {-1, 0, 2, 5}

\* timelines of an asset: up to two distinct timestamps in ascending order, and
\* one in descending order
AlignTimelines ==
    {<<>>} \cup {<<t>> : t \in AlignStamps}
           \cup {q \in AlignStamps \X AlignStamps : q[1] < q[2] \/ q = <<3, 1>>}

\* AssetData: a price for each point, or no price at all for a single point
AlignAssets ==
    UNION {{[Symbol |-> "A", Timestamps |-> t, Prices |-> q] :
               q \in [1..Len(t) -> AlignPrices] \cup (IF Len(t) = 1 THEN {<<>>} ELSE {})} :
           t \in AlignTimelines}

\* arguments of a call: the slice of assets
AlignInputs(in) ==
    \E k \in 0..MaxAssets : \E a \in [1..k -> AlignAssets] : in = [assets |-> a]

AlignErr(msg) == [err |-> [msg |-> msg], times |-> <<>>, prices |-> <<>>]

UsablePrice_NonNegative(p) == p >= 0

\* `asset.Prices[i] > 0`: the price of a point counts only when strictly positive
UsablePrice(p) == p > 0

\* the points of an asset that have a usable price
UsablePoints(asset) ==
    {i \in 1..Len(asset.Timestamps) : i <= Len(asset.Prices) /\ UsablePrice(asset.Prices[i])}

SetMax(S) == CHOOSE x \in S : \A y \in S : y <= x

BaseIndex_First(assets) == 1

\* the first asset with the fewest timestamps (`<` keeps the earlier one on a tie)
BaseIndex(assets) ==
    SetMin({i \in 1..Len(assets) :
               \A j \in 1..Len(assets) : Len(assets[i].Timestamps) <= Len(assets[j].Timestamps)})

\* the exchange sort of unifiedTimestamps: ascending
SortTimestamps(ts) == SortFloat64s(ts)

\* priceMap: timestamp -> price, a later point overwriting an earlier one
PriceMap(asset) ==
    LET ok == UsablePoints(asset)
    IN  [k \in {asset.Timestamps[i] : i \in ok} |->
            asset.Prices[SetMax({i \in ok : asset.Timestamps[i] = k})]]

\* findClosestPrice: the price of the latest usable point at or before the
\* target (bestTimestamp starts at -1), else of the first usable point after
\* it in slice order, else 0
findClosestPrice(asset, target) ==
    LET ok     == UsablePoints(asset)
        before == {i \in ok : asset.Timestamps[i] <= target /\ asset.Timestamps[i] > -1}
        after  == {i \in ok : asset.Timestamps[i] > target}
    IN  IF before # {}
        THEN LET best == SetMax({asset.Timestamps[i] : i \in before})
             IN  asset.Prices[SetMin({i \in before : asset.Timestamps[i] = best})]
        ELSE IF after # {} THEN asset.Prices[SetMin(after)]
        ELSE 0

FillPrepend(x, r) == IF r.ok THEN [ok |-> TRUE, row |-> <<x>> \o r.row] ELSE r

RECURSIVE FillFrom(_, _, _, _, _)
\* the forward-fill loop of one asset from unified timestamp k on, with
\* hasFirstPrice = has and lastKnownPrice = last; ok = FALSE is the error return
FillFrom(asset, unified, k, has, last) ==
    IF k > Len(unified) THEN [ok |-> TRUE, row |-> <<>>]
    ELSE LET ts == unified[k]
             pm == PriceMap(asset)
         IN  IF ts \in DOMAIN pm
             THEN FillPrepend(pm[ts], FillFrom(asset, unified, k + 1, TRUE, pm[ts]))
             ELSE IF has
             THEN FillPrepend(last, FillFrom(asset, unified, k + 1, TRUE, last))
             ELSE LET c == findClosestPrice(asset, ts)
                  IN  IF c > 0
                      THEN FillPrepend(c, FillFrom(asset, unified, k + 1, TRUE, c))
                      ELSE [ok |-> FALSE, row |-> <<>>]

\* alignTimestamps; time.Unix(ts, 0) keeps the second count, so the times are
\* the timestamps
alignTimestamps(assets) ==
    IF Len(assets) = 0 THEN AlignErr("no assets provided")
    ELSE LET base == assets[BaseIndex(assets)]
         IN  IF Len(base.Timestamps) = 0 THEN AlignErr("no timestamps found in base asset")
             ELSE LET unified == SortTimestamps(base.Timestamps)
                      rows == [i \in 1..Len(assets) |-> FillFrom(assets[i], unified, 1, FALSE, 0)]
                  IN  IF \E i \in 1..Len(assets) : ~rows[i].ok
                      THEN AlignErr("no valid price data found for asset")
                      ELSE [err |-> Nil, times |-> unified,
                            prices |-> [i \in 1..Len(assets) |-> rows[i].row]]

\* one call of alignTimestamps on the chosen arguments
Align ==
    /\ cpc = "call"
    /\ cpc' = "done"
    /\ cout' = alignTimestamps(cin.assets)
    /\ UNCHANGED <<cin, fvars, rvars>>

InitAlign == cpc = "call" /\ cout = Nil /\ AlignInputs(cin) /\ FIdle /\ RIdle
NextAlign == Align
SpecAlign == InitAlign /\ [][NextAlign]_vars

(***************************************************************************)
(* ParseWeightedPortfolio                                                  *)
(***************************************************************************)
MaxPairs == 4

\* symbol tokens by position, and a lower-case spelling of the first one
PairSymbols == <<"SPY", "QQQ", "VTI", "AAPL", "MSFT", "GLD">>
WeightTokens == {"1", "-1", "0.5", "1.5", "NaN", "Inf", "x"}

\* the input string, as its command prefix and its whitespace-separated fields:
\* k symbol/weight pairs (the last symbol possibly repeating the first in lower
\* case), possibly a symbol without a weight, and the window
ParseInputs(in) ==
    \E k \in 0..MaxPairs, cmd \in BOOLEAN, extra \in BOOLEAN :
        \E w \in [1..k -> WeightTokens], last \in {PairSymbols[IF k = 0 THEN 1 ELSE k], "spy"} :
            /\ k = 0 => last = "spy"
            /\ in = [cmd |-> cmd,
                     fields |->
                        [i \in 1..(2 * k) |->
                            IF i % 2 = 0 THEN w[i \div 2]
                            ELSE IF i = 2 * k - 1 THEN last ELSE PairSymbols[(i + 1) \div 2]]
                        \o (IF extra THEN <<PairSymbols[k + 1]>> ELSE <<>>)
                        \o <<"1y">>]

\* float64 values: a finite number (exact), NaN, or +Inf
FNum(r) == [k |-> "num", v |-> r]
FNaN == [k |-> "nan"]
FInf == [k |-> "inf"]

\* strconv.ParseFloat(s, 64) on the weight tokens
ParseFloat(tok) ==
    CASE tok = "1"   -> [ok |-> TRUE, val |-> FNum(RInt(1))]
      [] tok = "-1"  -> [ok |-> TRUE, val |-> FNum(RInt(-1))]
      [] tok = "0.5" -> [ok |-> TRUE, val |-> FNum(Rat(1, 2))]
      [] tok = "1.5" -> [ok |-> TRUE, val |-> FNum(Rat(3, 2))]
      [] tok = "NaN" -> [ok |-> TRUE, val |-> FNaN]
      [] tok = "Inf" -> [ok |-> TRUE, val |-> FInf]
      [] OTHER       -> [ok |-> FALSE, val |-> FNum(RInt(0))]

\* a > b on float64: false when either side is NaN
FGreater(a, b) ==
    CASE a.k = "nan" \/ b.k = "nan" -> FALSE
      [] a.k = "inf" -> b.k # "inf"
      [] b.k = "inf" -> FALSE
      [] OTHER -> RLess(b.v, a.v)

\* a + b on float64, for operands that are not +Inf and -Inf together
FAdd(a, b) ==
    CASE a.k = "nan" \/ b.k = "nan" -> FNaN
      [] a.k = "inf" \/ b.k = "inf" -> FInf
      [] OTHER -> FNum(RAdd(a.v, b.v))

\* -a on float64, for a finite or NaN
FNeg(a) == IF a.k = "num" THEN FNum(RSub(RInt(0), a.v)) ELSE a

\* strings.ToUpper on the symbol tokens
ToUpper(tok) == IF tok = "spy" THEN "SPY" ELSE tok

\* strings.Fields of the input after TrimSpace and the removal of "/port"
InputFields(in) == in.fields

ParseErr(rule) == [err |-> [rule |-> rule], symbols |-> <<>>, weights |-> <<>>, window |-> ""]

\* the first pair whose weight is rejected inside the pair loop, with its error
PairError(parts, i) ==
    LET pf == ParseFloat(parts[2 * i])
    IN  IF ~pf.ok THEN "invalid weight"
        ELSE IF FGreater(pf.val, FNum(RInt(1))) THEN "long weight exceeds 1.0"
        ELSE IF FGreater(FNum(RInt(-1)), pf.val) THEN "short weight exceeds -1.0"
        ELSE "none"

RECURSIVE FSum(_)
FSum(s) == IF s = <<>> THEN FNum(RInt(0)) ELSE FAdd(FSum(SubSeq(s, 1, Len(s) - 1)), s[Len(s)])

GrossExposure_Net(weights) == FSum(weights)

\* totalLong + totalShort: w > 0 goes to totalLong, anything else to totalShort as -w
GrossExposure(weights) ==
    FAdd(FSum([i \in 1..Len(weights) |->
                  IF FGreater(weights[i], FNum(RInt(0))) THEN weights[i] ELSE FNum(RInt(0))]),
         FSum([i \in 1..Len(weights) |->
                  IF FGreater(weights[i], FNum(RInt(0))) THEN FNum(RInt(0)) ELSE FNeg(weights[i])]))

\* the duplicate loop finds a symbol already seen
HasDuplicate(symbols) == \E i, j \in 1..Len(symbols) : i < j /\ symbols[i] = symbols[j]

ParseWeightedPortfolio(in) ==
    LET all == InputFields(in)
    IN  IF Len(all) < 3 THEN ParseErr("insufficient arguments")
        ELSE LET window == all[Len(all)]
                 parts == SubSeq(all, 1, Len(all) - 1)
                 n == Len(parts) \div 2
             IN  IF Len(parts) % 2 # 0 THEN ParseErr("each symbol must have a weight")
                 ELSE IF \E i \in 1..n : PairError(parts, i) # "none"
                 THEN ParseErr(PairError(parts, SetMin({i \in 1..n : PairError(parts, i) # "none"})))
                 ELSE LET symbols == [i \in 1..n |-> ToUpper(parts[2 * i - 1])]
                          weights == [i \in 1..n |-> ParseFloat(parts[2 * i]).val]
                      IN  IF FGreater(GrossExposure(weights), FNum(RInt(3)))
                          THEN ParseErr("gross exposure exceeds 3.0")
                          ELSE IF HasDuplicate(symbols) THEN ParseErr("duplicate symbol")
                          ELSE [err |-> Nil, symbols |-> symbols, weights |-> weights,
                                window |-> window]

\* one call of ParseWeightedPortfolio on the chosen input
Parse ==
    /\ cpc = "call"
    /\ cpc' = "done"
    /\ cout' = ParseWeightedPortfolio(cin)
    /\ UNCHANGED <<cin, fvars, rvars>>

InitParse == cpc = "call" /\ cout = Nil /\ ParseInputs(cin) /\ FIdle /\ RIdle
NextParse == Parse
SpecParse == InitParse /\ [][NextParse]_vars

(***************************************************************************)
(* Specification of one call of fetchSeries                                *)
(***************************************************************************)
\* entry of fetchSeries: `var yc`, `var lastErr`, attempt := 0, first host
\* (`var sp` of the fallback block is the zero value whenever it is entered)
FInit ==
    /\ fpc = "primary" /\ attempt = 0 /\ hostIdx = 1 /\ lastErr = Nil
    /\ yc = <<>> /\ sp = <<>> /\ fresult = Nil /\ flog = <<>>

\* two goroutines serving portfolio commands concurrently
Init == RInit({1, 2}, ConcurrentInputs) /\ FIdle /\ CIdle
Next ==
    \/ \E r \in DOMAIN rpc : Call(r)
    \/ \E r \in DOMAIN rpc : CacheGetLock(r)
    \/ \E r \in DOMAIN rpc : CacheGetBody(r)
    \/ \E r \in DOMAIN rpc : PortfolioFetchReturn(r)
    \/ \E r \in DOMAIN rpc : Compute(r)
    \/ \E r \in DOMAIN rpc : CacheSetLock(r)
    \/ \E r \in DOMAIN rpc : CacheSetBody(r)
    \/ Tick
Spec == Init /\ [][Next]_vars

\* one goroutine serving portfolio and multi-symbol chart commands
InitSeq == RInit({1}, ReqInputs) /\ FIdle /\ CIdle
NextSeq ==
    \/ \E r \in DOMAIN rpc : Call(r)
    \/ \E r \in DOMAIN rpc : CacheGetLock(r)
    \/ \E r \in DOMAIN rpc : CacheGetBody(r)
    \/ \E r \in DOMAIN rpc : PortfolioFetchReturn(r)
    \/ \E r \in DOMAIN rpc : MultiFetchReturn(r)
    \/ \E r \in DOMAIN rpc : MultiSleep(r)
    \/ \E r \in DOMAIN rpc : Compute(r)
    \/ \E r \in DOMAIN rpc : CacheSetLock(r)
    \/ \E r \in DOMAIN rpc : CacheSetBody(r)
    \/ Tick
SpecSeq == InitSeq /\ [][NextSeq]_vars

\* one goroutine serving two chart commands that differ at most in their
\* weights: MakeWeightedPortfolioChart, or MakePortfolioChart
InitWeighted ==
    /\ FIdle /\ CIdle
    /\ \E a \in WeightedInputs \cup PortfolioInputs :
         \E b \in {a} \cup {x \in WeightedInputs :
                                 /\ a.kind = "wport" /\ x.symbols = a.symbols
                                 /\ x.window = a.window /\ Len(x.weights) = Len(a.weights)} :
            RInit({1}, {a, b})
NextWeighted ==
    \/ \E r \in DOMAIN rpc : Call(r)
    \/ \E r \in DOMAIN rpc : CacheGetLock(r)
    \/ \E r \in DOMAIN rpc : CacheGetBody(r)
    \/ \E r \in DOMAIN rpc : PortfolioFetchReturn(r)
    \/ \E r \in DOMAIN rpc : Compute(r)
    \/ \E r \in DOMAIN rpc : CacheSetLock(r)
    \/ \E r \in DOMAIN rpc : CacheSetBody(r)
    \/ Tick
SpecWeighted == InitWeighted /\ [][NextWeighted]_vars

InitFetch == FInit /\ RIdle /\ CIdle
NextFetch ==
    \/ PrimaryRequest
    \/ PrimaryBackoff
    \/ SparkRequest
    \/ SparkBackoff
SpecFetch == InitFetch /\ [][NextFetch]_vars

(***************************************************************************)
(* Properties of fetchSeries (checked under SpecFetch)                     *)
(***************************************************************************)
IsReq(e, schema) == e.ev = "req" /\ e.schema = schema
ReqIdx(schema) == {i \in 1..Len(flog) : IsReq(flog[i], schema)}
FailedBefore(i, schema) ==
    Cardinality({j \in 1..(i - 1) : IsReq(flog[j], schema) /\ flog[j].res = "err"})
\* a request that ended the call with a result: primary 200 + decodable body,
\* spark 200 + decodable body + non-empty result
Succeeded(e) == e.ev = "req" /\ e.res = "ok"
Returned == fpc = "done"

\* C1: a spark request is issued only after 8 failed primary requests, and never
\* in a call in which some primary request succeeded.
C1_SparkOnlyAfterPrimaryExhausted ==
    \A i \in ReqIdx("spark") :
        /\ FailedBefore(i, "primary") = 8
        /\ \A j \in ReqIdx("primary") : ~Succeeded(flog[j])

\* C1 witness: the call returned a series obtained from the spark endpoint.
C1_Witness ==
    /\ Returned /\ fresult.err = Nil
    /\ ReqIdx("spark") # {}
    /\ Cardinality(ReqIdx("primary")) = 8

\* C2: per schema at most 4 attempts; per attempt at most one request per host,
\* query1 before query2, query2 only when query1's request of that attempt did
\* not succeed; at most 8 primary and 8 spark requests.
C2_AttemptsAndHostOrder ==
    /\ \A i \in 1..Len(flog) : flog[i].ev = "req" =>
          /\ flog[i].attempt \in 0..3
          /\ flog[i].host \in 1..2
          /\ \A j \in 1..Len(flog) :
                (/\ flog[j].ev = "req" /\ flog[j].schema = flog[i].schema
                 /\ flog[j].attempt = flog[i].attempt /\ flog[j].host = flog[i].host) => j = i
          /\ flog[i].host = 2 =>
                \E j \in 1..(i - 1) :
                    /\ IsReq(flog[j], flog[i].schema)
                    /\ flog[j].attempt = flog[i].attempt
                    /\ flog[j].host = 1
                    /\ ~Succeeded(flog[j])
                    /\ \A k \in (j + 1)..(i - 1) : flog[k].ev # "req"
    /\ Cardinality(ReqIdx("primary")) <= 8
    /\ Cardinality(ReqIdx("spark")) <= 8

\* C2 witness: both schemas used all 4 attempts on both hosts.
C2_Witness ==
    /\ Cardinality(ReqIdx("primary")) = 8
    /\ Cardinality(ReqIdx("spark")) = 8
    /\ \E i \in ReqIdx("spark") : flog[i].attempt = 3 /\ flog[i].host = 2

AllRequestsFailed == \A i \in 1..Len(flog) : flog[i].ev = "req" => flog[i].res = "err"

\* C3: when every request of both schemas fails, fetchSeries returns no series
\* and the error recorded by the last request made (the final spark request).
C3_AllFailReturnsLastError ==
    (Returned /\ AllRequestsFailed) =>
        /\ fresult.ts = <<>> /\ fresult.cl = <<>>
        /\ fresult.err # Nil
        /\ fresult.err = lastErr
        /\ fresult.err.n = NumReq(flog)
        /\ fresult.err.n = 16
        /\ fresult.err.schema = "spark"
        /\ fresult.err.host = hosts[2]

\* C3 witness: a call that returned after 16 failed requests.
C3_Witness == Returned /\ AllRequestsFailed /\ NumReq(flog) = 16

\* C4: a successful request is the last event of the call: no request and no
\* backoff sleep follows it, and the call has returned.
C4_NothingAfterSuccess ==
    \A i \in 1..Len(flog) : Succeeded(flog[i]) => (i = Len(flog) /\ Returned)

\* C4 witness: a primary request succeeded after earlier failures and a backoff.
C4_Witness ==
    /\ Len(flog) > 3
    /\ Succeeded(flog[Len(flog)])
    /\ flog[Len(flog)].schema = "primary"
    /\ \E i \in 1..Len(flog) : flog[i].ev = "sleep"

\* C5: every successful return carries timestamps and closes of equal length
\* with no close below 0.
C5_SuccessIsClean ==
    (Returned /\ fresult.err = Nil) =>
        /\ Len(fresult.ts) = Len(fresult.cl)
        /\ \A i \in 1..Len(fresult.cl) : fresult.cl[i] >= 0

\* C5 witness: a spark success whose 20-point payload lost a point to the cleaner.
C5_Witness ==
    /\ Returned /\ fresult.err = Nil
    /\ ReqIdx("spark") # {}
    /\ Len(fresult.cl) = IQRMinPoints - 1

\* C5 second case: a primary success whose payload had more timestamps than closes.
C5_WitnessPrimary ==
    /\ Returned /\ fresult.err = Nil
    /\ ReqIdx("spark") = {}
    /\ Len(fresult.cl) = MaxLen

(***************************************************************************)
(* Properties of the chart requests and of the cache                       *)
(***************************************************************************)
Active == {r \in DOMAIN rpc : req[r] # Nil}
IsFetchRet(e) == e.ev = "fetchret"
InCacheOp == {"cacheGet_locked", "cacheSet_locked"}

\* C6: in a portfolio request, a fetch that fails or returns an empty series is
\* the last thing the request does: it returns an error and no image,
\* fetchPortfolioAssets returns no asset list, and neither a later fetch nor a
\* backtest follows.
C6_FailedSymbolAbortsRequest ==
    \A r \in Active : req[r].kind = "portfolio" =>
        \A i \in 1..Len(rlog[r]) :
            (IsFetchRet(rlog[r][i]) /\ rlog[r][i].res \in {"err", "empty"}) =>
                /\ i = Len(rlog[r])
                /\ rpc[r] = "returned"
                /\ rout[r].err # Nil
                /\ rout[r].img = Nil
                /\ rassets[r] = Nil

\* C6 witness: a two-symbol portfolio request whose first symbol came back empty.
C6_Witness ==
    \E r \in Active :
        /\ req[r].kind = "portfolio" /\ Len(req[r].symbols) = 2
        /\ rpc[r] = "returned"
        /\ rlog[r][Len(rlog[r])] = [ev |-> "fetchret", sym |-> 1, res |-> "empty"]

\* C7: cacheGet(key) finds the entry iff the most recent cacheSet(key) is less than
\* 60 seconds old at the lookup; an expired entry stays in the map, and the entry
\* always carries the time of the most recent cacheSet.
C7_HitIffSetWithinTTL ==
    /\ \A r \in Active : rfound[r] # Nil =>
          /\ rfound[r].found <=>
                (rfound[r].setAt >= 0 /\ rfound[r].at - rfound[r].setAt < 60)
          /\ (~rfound[r].found /\ rfound[r].setAt >= 0) => KeyOf(r) \in DOMAIN chartCache
    /\ \A k \in DOMAIN lastSetAt :
          k \in DOMAIN chartCache /\ chartCache[k].createdAt = lastSetAt[k]

\* C7 witness: a lookup 60 s after the cacheSet missed, the request stored a new
\* image, and a lookup of the other request then hit the replaced entry.
C7_Witness ==
    /\ 1 \in Active /\ 2 \in Active
    /\ rfound[1] # Nil /\ rfound[2] # Nil
    /\ ~rfound[1].found /\ rfound[1].setAt = 0 /\ rfound[1].at = 60
    /\ rfound[2].found /\ rfound[2].setAt = 60

\* C8: the mutex is held exactly by the requests inside the map operation of
\* cacheGet or cacheSet, by at most one at a time; a request that is fetching,
\* sleeping, computing or has returned does not hold it, and while one request is
\* in a fetch another can take the lock unless a third is inside a map operation.
C8_LockOnlyInsideCacheOps ==
    /\ chartCacheMu = {r \in DOMAIN rpc : rpc[r] \in InCacheOp}
    /\ Cardinality(chartCacheMu) <= 1
    /\ \A r \in DOMAIN rpc :
          rpc[r] \in {"fetching", "sleep", "compute", "returned", "idle"} => r \notin chartCacheMu
    /\ \A r, w \in DOMAIN rpc :
          (/\ rpc[r] = "fetching" /\ rpc[w] = "cacheGet"
           /\ \A o \in DOMAIN rpc : rpc[o] \notin InCacheOp) => ENABLED CacheGetLock(w)

\* C8 witness: one request is inside a fetch while the other is inside cacheGet.
C8_Witness == rpc[1] = "fetching" /\ rpc[2] = "cacheGet_locked"

\* the fetch of symbol i+1 starts only after the fetch of symbol i has returned
FetchesSequential ==
    \A r \in Active : \A i \in 1..Len(rlog[r]) :
        (rlog[r][i].ev = "fetch" /\ rlog[r][i].sym > 1) =>
            \E j \in 1..(i - 1) :
                /\ IsFetchRet(rlog[r][j]) /\ rlog[r][j].sym = rlog[r][i].sym - 1
                /\ \A k \in (j + 1)..(i - 1) : rlog[r][k].ev = "sleep"

\* a delay step lies between the return of one fetch and the start of the next
DelayBetweenFetches(r) ==
    \A i \in 1..Len(rlog[r]) :
        (rlog[r][i].ev = "fetch" /\ rlog[r][i].sym > 1) =>
            (i > 1 /\ rlog[r][i - 1].ev = "sleep")

\* the delay is there on the multi-symbol chart path
MultiChartDelay ==
    \A r \in Active : req[r].kind = "multi" => DelayBetweenFetches(r)

\* C9: the per-symbol fetches of a request are sequential and a fixed delay step
\* separates consecutive fetches, on the portfolio path as on the chart path.
C9_SequentialWithDelay ==
    /\ FetchesSequential
    /\ \A r \in Active : DelayBetweenFetches(r)

(***************************************************************************)
(* Properties of calculateWeightedPortfolio (checked under SpecCalc)       *)
(***************************************************************************)
Accepted == cpc = "done" /\ cout.err = Nil

\* the value of the day-0 holdings: positions at the day-0 prices plus cash
Day0Holdings ==
    RAdd(RSum([i \in 1..Len(cin.prices) |->
                  RMul(cout.shares[i], RInt(cin.prices[i][1]))]),
         cout.cash)

\* C10: for every accepted portfolio the day-0 holdings (shares at the day-0
\* prices plus cash) equal InitialValue, which is also Values[0].
C10_ShareConservation ==
    Accepted =>
        /\ Day0Holdings = RInt(cin.config.InitialValue)
        /\ cout.values[1] = RInt(cin.config.InitialValue)

\* C10 witness: an accepted two-asset portfolio with a short position and
\* different day-0 prices.
C10_Witness ==
    /\ Accepted
    /\ Len(cin.prices) = 2
    /\ cin.prices[1][1] # cin.prices[2][1]
    /\ \E i \in 1..2 : cin.config.Assets[i].Weight.n < 0

\* C10 second case: an accepted portfolio with negative cash (net weight above 1).
C10_WitnessMargin == Accepted /\ cout.cash.n < 0

\* the call passed the checks that come before the price checks
WellShaped ==
    /\ cin.config # Nil /\ cin.numDays >= 2
    /\ Len(cin.config.Assets) = Len(cin.prices)
    /\ \A i \in 1..Len(cin.prices) : Len(cin.prices[i]) = cin.numDays

\* C11: a negative price on any day, or a day-0 price that is not strictly
\* positive, makes calculateWeightedPortfolio return an error and no data at
\* all; a zero price after day 0 is accepted (a well-shaped call whose day-0
\* prices are positive and whose later prices are non-negative succeeds) and the
\* asset then adds nothing to that day's value.
C11_BadPriceIsFatalZeroLaterIsNot ==
    cpc = "done" =>
        /\ (\/ \E i \in 1..Len(cin.prices) : \E d \in 1..Len(cin.prices[i]) : cin.prices[i][d] < 0
            \/ \E i \in 1..Len(cin.prices) : cin.prices[i][1] <= 0)
              => (cout.err # Nil /\ cout.values = <<>> /\ cout.returns = <<>>)
        /\ (/\ WellShaped
            /\ \A i \in 1..Len(cin.prices) : cin.prices[i][1] > 0
            /\ \A i \in 1..Len(cin.prices) : \A d \in 2..cin.numDays : cin.prices[i][d] >= 0)
              => /\ cout.err = Nil
                 /\ \A d \in 2..cin.numDays :
                       cout.values[d] =
                           RAdd(cout.cash,
                                RSum([i \in 1..Len(cin.prices) |->
                                         IF cin.prices[i][d] = 0 THEN RInt(0)
                                         ELSE RMul(cout.shares[i], RInt(cin.prices[i][d]))]))

\* C11 witness: an accepted two-asset call in which one asset is at zero on day 1
\* and the other is not.
C11_Witness ==
    /\ Accepted /\ Len(cin.prices) = 2
    /\ cin.prices[1][2] = 0 /\ cin.prices[2][2] > 0

\* C11 second case: a well-shaped call rejected for a negative price after day 0.
C11_WitnessNegative ==
    /\ cpc = "done" /\ WellShaped /\ cout.err # Nil
    /\ \A i \in 1..Len(cin.prices) : cin.prices[i][1] > 0
    /\ \E i \in 1..Len(cin.prices) : cin.prices[i][2] < 0

(***************************************************************************)
(* Properties of alignTimestamps (checked under SpecAlign)                 *)
(***************************************************************************)
AlignOK == cpc = "done" /\ cout.err = Nil

\* the number of points of the shortest input series
FewestPoints == SetMin({Len(cin.assets[i].Timestamps) : i \in 1..Len(cin.assets)})

\* C12: a successful alignTimestamps on N >= 1 series returns N price vectors in
\* input order (vector i holds prices of series i), each as long as the series
\* with the fewest points, and a timeline of that length (the timestamps of that
\* series, ascending).
C12_AlignedShape ==
    AlignOK =>
        /\ Len(cin.assets) >= 1 /\ FewestPoints >= 1
        /\ Len(cout.prices) = Len(cin.assets)
        /\ Len(cout.times) = FewestPoints
        /\ \A i \in 1..Len(cout.prices) : Len(cout.prices[i]) = FewestPoints
        /\ \E b \in 1..Len(cin.assets) :
              /\ Len(cin.assets[b].Timestamps) = FewestPoints
              /\ {cout.times[k] : k \in 1..Len(cout.times)}
                     = {cin.assets[b].Timestamps[k] : k \in 1..FewestPoints}
        /\ \A k \in 1..(Len(cout.times) - 1) : cout.times[k] <= cout.times[k + 1]
        /\ \A i \in 1..Len(cout.prices) : \A k \in 1..Len(cout.prices[i]) :
              cout.prices[i][k] \in {cin.assets[i].Prices[j] : j \in 1..Len(cin.assets[i].Prices)}

\* C12 witness: two series of different lengths, the longer one first, aligned
\* to the shorter one.
C12_Witness ==
    /\ AlignOK /\ Len(cin.assets) = 2
    /\ Len(cin.assets[1].Timestamps) = 2 /\ Len(cin.assets[2].Timestamps) = 1
    /\ Len(cout.prices[1]) = 1

\* an asset has a strictly positive price at some point
HasPositivePrice(asset) ==
    \E i \in 1..Len(asset.Timestamps) : i <= Len(asset.Prices) /\ asset.Prices[i] > 0

\* C13: on success every aligned price is strictly positive, and a call with a
\* non-empty base timeline in which some asset has no strictly positive price
\* fails.
C13_AlignedPricesPositive ==
    /\ AlignOK => \A i \in 1..Len(cout.prices) : \A k \in 1..Len(cout.prices[i]) :
                      cout.prices[i][k] > 0
    /\ (cpc = "done" /\ \E i \in 1..Len(cin.assets) : ~HasPositivePrice(cin.assets[i]))
          => cout.err # Nil /\ cout.prices = <<>>

\* C13 witness: a success in which an asset has a zero-priced point on the
\* timeline before its first positive price, filled from the later point.
C13_Witness ==
    /\ AlignOK
    /\ \E i \in 1..Len(cin.assets) :
          LET a == cin.assets[i]
          IN  /\ Len(a.Prices) = 2 /\ a.Timestamps[1] < a.Timestamps[2]
              /\ a.Prices[1] = 0 /\ a.Prices[2] > 0
              /\ cout.times[1] = a.Timestamps[1]
              /\ cout.prices[i][1] = a.Prices[2]

\* C13 second case: a call that fails because an asset has only non-positive prices.
C13_WitnessFails ==
    /\ cpc = "done" /\ cout.err # Nil /\ Len(cin.assets) = 2
    /\ \A i \in 1..2 : Len(cin.assets[i].Timestamps) = 2
    /\ HasPositivePrice(cin.assets[1]) /\ ~HasPositivePrice(cin.assets[2])

(***************************************************************************)
(* Properties of ParseWeightedPortfolio (checked under SpecParse)          *)
(***************************************************************************)
ParseOK == cpc = "done" /\ cout.err = Nil

\* the symbol/weight tokens of the input and the number of pairs
PairTokens == SubSeq(cin.fields, 1, Len(cin.fields) - 1)
NumPairs == Len(PairTokens) \div 2
WeightToken(i) == PairTokens[2 * i]

\* a weight token that is a real number in [-1.0, 1.0]
WeightInRange(tok) ==
    LET pf == ParseFloat(tok)
    IN  /\ pf.ok /\ pf.val.k = "num"
        /\ ~RLess(pf.val.v, RInt(-1)) /\ ~RLess(RInt(1), pf.val.v)

\* the sum of the absolute values of the (in-range) weights
AbsSum == RSum([i \in 1..NumPairs |-> RAbs(ParseFloat(WeightToken(i)).val.v)])

RepeatsSymbol ==
    \E i, j \in 1..NumPairs : i < j /\ ToUpper(PairTokens[2 * i - 1]) = ToUpper(PairTokens[2 * j - 1])

\* the first rule the input violates, in the order (a) .. (e)
FirstViolatedRule ==
    IF Len(cin.fields) < 3 THEN "a"
    ELSE IF Len(PairTokens) % 2 # 0 THEN "b"
    ELSE IF \E i \in 1..NumPairs : ~WeightInRange(WeightToken(i)) THEN "c"
    ELSE IF RepeatsSymbol THEN "d"
    ELSE IF RLess(RInt(3), AbsSum) THEN "e"
    ELSE "none"

\* the rule an error of the parser is about
RuleOfError(rule) ==
    CASE rule = "insufficient arguments" -> "a"
      [] rule = "each symbol must have a weight" -> "b"
      [] rule \in {"invalid weight", "long weight exceeds 1.0", "short weight exceeds -1.0"} -> "c"
      [] rule = "duplicate symbol" -> "d"
      [] rule = "gross exposure exceeds 3.0" -> "e"

HasNaNToken == \E i \in 1..Len(cin.fields) : cin.fields[i] = "NaN"

\* C14: the error reported is the one of the first violated rule in the order
\* (a) too few tokens, (b) odd token count, (c) bad weight, (d) duplicate
\* symbol, (e) gross exposure above 3.0 (inputs without a NaN weight token).
C14_FirstViolatedRuleReported ==
    (cpc = "done" /\ ~HasNaNToken) =>
        IF FirstViolatedRule = "none" THEN cout.err = Nil
        ELSE cout.err # Nil /\ RuleOfError(cout.err.rule) = FirstViolatedRule

\* the parser reports the rules in the order (a), (b), (c), (e), (d)
ParserRuleOrder ==
    (cpc = "done" /\ ~HasNaNToken) =>
        IF FirstViolatedRule = "none" THEN cout.err = Nil
        ELSE /\ cout.err # Nil
             /\ RuleOfError(cout.err.rule) =
                    IF FirstViolatedRule = "d" /\ RLess(RInt(3), AbsSum) THEN "e"
                    ELSE FirstViolatedRule

\* an input that repeats a symbol and exceeds the exposure limit gets the
\* exposure error
DuplicateAndLeverageReached ==
    /\ cpc = "done" /\ ~HasNaNToken /\ FirstViolatedRule = "d" /\ RLess(RInt(3), AbsSum)
    /\ cout.err # Nil /\ cout.err.rule = "gross exposure exceeds 3.0"

\* C15: every weight of a successful parse is a number w with -1.0 <= w <= 1.0.
C15_ReturnedWeightsInRange ==
    ParseOK =>
        \A i \in 1..Len(cout.weights) :
            /\ cout.weights[i].k = "num"
            /\ ~RLess(cout.weights[i].v, RInt(-1)) /\ ~RLess(RInt(1), cout.weights[i].v)

\* a successful parse that returns a NaN weight
NaNWeightAccepted == ParseOK /\ \E i \in 1..Len(cout.weights) : cout.weights[i].k = "nan"

\* a +Inf weight token is never accepted
InfWeightRejected ==
    (cpc = "done" /\ Len(cin.fields) >= 3 /\ Len(PairTokens) % 2 = 0
        /\ \E i \in 1..NumPairs : WeightToken(i) = "Inf") => cout.err # Nil

\* the input passes the rules (a) to (d)
PassesOtherRules ==
    /\ Len(cin.fields) >= 3 /\ Len(PairTokens) % 2 = 0
    /\ \A i \in 1..NumPairs : WeightInRange(WeightToken(i))
    /\ ~RepeatsSymbol

\* C16: an input that passes every other rule is accepted iff the sum of the
\* absolute values of its weights is at most 3.0, and is otherwise rejected
\* with the exposure error.
C16_AcceptedIffGrossExposureAtMost3 ==
    (cpc = "done" /\ PassesOtherRules) =>
        /\ cout.err = Nil <=> ~RLess(RInt(3), AbsSum)
        /\ cout.err # Nil => cout.err.rule = "gross exposure exceeds 3.0"

\* C16 witness: a long/short portfolio with gross exposure exactly 3.0 is accepted.
C16_Witness ==
    /\ ParseOK /\ PassesOtherRules /\ AbsSum = RInt(3)
    /\ \E i \in 1..NumPairs : WeightToken(i) = "-1"

\* C16 second case: gross exposure 3.5 with a short position is rejected.
C16_WitnessRejected ==
    /\ cpc = "done" /\ PassesOtherRules /\ AbsSum = Rat(7, 2) /\ cout.err # Nil
    /\ \E i \in 1..NumPairs : WeightToken(i) = "-1"

(***************************************************************************)
(* Properties of parsePortfolioWindow (checked under SpecWindow)           *)
(***************************************************************************)
\* the range codes in ascending order with their maximum spans in days
\* (-1: unbounded)
RangeSpans ==
    <<[code |-> "5d", span |-> 5], [code |-> "1mo", span |-> 30], [code |-> "3mo", span |-> 90],
      [code |-> "6mo", span |-> 180], [code |-> "1y", span |-> 365], [code |-> "2y", span |-> 730],
      [code |-> "5y", span |-> 1825], [code |-> "10y", span |-> 3650], [code |-> "max", span |-> -1]>>

Covers(i, days) == RangeSpans[i].span = -1 \/ RangeSpans[i].span >= days

SmallestCovering(days) ==
    RangeSpans[SetMin({i \in 1..Len(RangeSpans) : Covers(i, days)})].code

\* the token is <n><unit> with n >= 1 and a unit among d, w, m, y
WinDigits == SubSeq(cin.window, 1, Len(cin.window) - 1)
WinUnit == cin.window[Len(cin.window)]
LookbackToken ==
    /\ Len(cin.window) >= 2 /\ WinUnit \in {"d", "w", "m", "y"}
    /\ DecimalValue(WinDigits) >= 1

DaysPerUnit(u) == CASE u = "d" -> 1 [] u = "w" -> 7 [] u = "m" -> 30 [] u = "y" -> 365
RequestedDays == DecimalValue(WinDigits) * DaysPerUnit(WinUnit)

\* C17: for a lookback token <n><unit>, n >= 1, parsePortfolioWindow returns the
\* target day count n, 7n, 30n or 365n and the smallest range code whose
\* maximum span is at least that day count.
C17_SmallestCoveringRange ==
    (cpc = "done" /\ LookbackToken) =>
        /\ cout.err = Nil
        /\ cout.days = RequestedDays
        /\ cout.range = SmallestCovering(RequestedDays)

\* the target day count is as stated
WindowTargetDays ==
    (cpc = "done" /\ LookbackToken) => (cout.err = Nil /\ cout.days = RequestedDays)

\* for year windows the range code is the smallest covering one
YearWindowsSmallestCovering ==
    (cpc = "done" /\ LookbackToken /\ WinUnit = "y") =>
        cout.range = SmallestCovering(RequestedDays)

\* a window whose range code spans fewer days than the target: 400d gets 1y
RangeShorterThanTarget ==
    /\ cpc = "done" /\ cin.window = <<"4", "0", "0", "d">>
    /\ cout.range = "1y" /\ cout.days = 400

(***************************************************************************)
(* Properties of filterToTargetDays (checked under SpecTrim)               *)
(***************************************************************************)
\* every retained timestamp lies within targetDays days of the latest one
WithinTargetSpan ==
    \A k \in 1..Len(cout.ts) :
        cout.ts[k] >= cin.timestamps[Len(cin.timestamps)] - cin.targetDays * 86400

\* C18: after filterToTargetDays with targetDays > 0 every retained timestamp is
\* no older than targetDays * 86400 seconds before the latest timestamp,
\* whatever the number of points.
C18_RetainedWithinTargetDays ==
    (cpc = "done" /\ cin.targetDays > 0 /\ Len(cin.timestamps) > 0) => WithinTargetSpan

\* the series is trimmed to the span when it has more points than targetDays
TrimmedWhenMorePointsThanDays ==
    (cpc = "done" /\ cin.targetDays > 0 /\ Len(cin.timestamps) > cin.targetDays) =>
        /\ WithinTargetSpan
        /\ \E st \in 0..(Len(cin.timestamps) - 1) :
              /\ cout.ts = SubSeq(cin.timestamps, st + 1, Len(cin.timestamps))
              /\ cout.prices = SubSeq(cin.prices, st + 1, Len(cin.prices))
              /\ \A i \in 1..st :
                    cin.timestamps[i] < cin.timestamps[Len(cin.timestamps)] - cin.targetDays * 86400

\* a series with no more points than targetDays is returned whole, however long
\* its span: two points five days apart with targetDays = 2
UntrimmedLongSpan ==
    /\ cpc = "done" /\ cin.targetDays = 2
    /\ cin.timestamps = <<0, 5 * 86400>>
    /\ cout.ts = cin.timestamps

(***************************************************************************)
(* Properties of calculateMaxDrawdown (checked under SpecDrawdown)         *)
(***************************************************************************)
HasPositiveValue == \E i \in 1..Len(cin.values) : cin.values[i].n > 0

\* C19: for a value series with at least one strictly positive value,
\* calculateMaxDrawdown returns d with 0 <= d <= 1.
C19_MaxDrawdownBetween0And1 ==
    (cpc = "done" /\ HasPositiveValue) =>
        /\ ~RLess(cout.maxDrawdown, RInt(0))
        /\ ~RLess(RInt(1), cout.maxDrawdown)

\* C19 witness: a series that falls from its peak to a negative value and then
\* recovers to a value below the peak has a drawdown strictly between 0 and 1.
C19_Witness ==
    /\ cpc = "done" /\ Len(cin.values) = 3
    /\ cin.values[1].n > 0 /\ cin.values[2].n < 0 /\ cin.values[3].n > 0
    /\ RLess(RInt(0), cout.maxDrawdown) /\ RLess(cout.maxDrawdown, RInt(1))

\* C19 second case: a series starting at zero before its first positive value.
C19_WitnessZeroStart ==
    /\ cpc = "done" /\ Len(cin.values) >= 2 /\ cin.values[1].n = 0
    /\ HasPositiveValue /\ cout.maxDrawdown = RInt(1)

(***************************************************************************)
(* Properties of calculatePortfolioStats (checked under SpecStats)         *)
(***************************************************************************)
StatsOK == cpc = "done" /\ cout.err = Nil

AllReturnsPositive ==
    \A i \in 1..Len(cin.portfolio.Returns) : cin.portfolio.Returns[i].n > 0

\* C20: for an accepted portfolio whose daily returns are all strictly
\* positive, the Sharpe ratio is strictly greater than 0.
C20_SharpePositive ==
    (StatsOK /\ AllReturnsPositive) => cout.stats.SharpeSign = 1

\* with strictly positive returns that are not all equal the Sharpe ratio is > 0
SharpePositiveWhenReturnsDiffer ==
    (StatsOK /\ AllReturnsPositive
        /\ \E i, j \in 1..Len(cin.portfolio.Returns) :
              cin.portfolio.Returns[i] # cin.portfolio.Returns[j])
        => cout.stats.SharpeSign = 1

\* a portfolio doubling every day (1, 2, 4) has zero volatility and is reported
\* with a Sharpe ratio of 0
SharpeZeroOnConstantGrowth ==
    /\ StatsOK /\ cin.portfolio.Values = <<RInt(1), RInt(2), RInt(4)>>
    /\ AllReturnsPositive /\ cout.stats.variance = RInt(0) /\ cout.stats.SharpeSign = 0

\* C21: calculatePortfolioStats returns an error and no statistics when the
\* portfolio has fewer than 2 returns (a 2-point backtest included), and a
\* success has at least 2 returns and NumDays equal to the number of values.
C21_FewReturnsIsAnError ==
    cpc = "done" =>
        /\ (cin.portfolio = Nil \/ Len(cin.portfolio.Returns) < 2)
              => (cout.err # Nil /\ cout.stats = Nil)
        /\ cout.err = Nil
              => /\ Len(cin.portfolio.Returns) >= 2
                 /\ cout.stats # Nil
                 /\ cout.stats.NumDays = Len(cin.portfolio.Values)

\* C21 witness: a rising 2-point backtest with its single return is rejected.
C21_Witness ==
    /\ cpc = "done" /\ cin.portfolio # Nil
    /\ cin.portfolio.Values = <<RInt(1), RInt(2)>> /\ cin.portfolio.Returns = <<RInt(1)>>
    /\ cout.err # Nil /\ cout.stats = Nil

\* C21 second case: a 3-point backtest is accepted with NumDays = 3.
C21_WitnessAccepted == StatsOK /\ Len(cin.portfolio.Values) = 3 /\ cout.stats.NumDays = 3

(***************************************************************************)
(* Properties of filterIQR (checked under SpecIQR)                         *)
(***************************************************************************)
\* twice the median of a 20-point series
TwiceMedian20 ==
    LET v == SortFloat64s(cin.cl) IN v[10] + v[11]

\* the points whose close is 100 times the median
AtHundredTimesMedian == {i \in 1..Len(cin.cl) : 2 * cin.cl[i] = 100 * TwiceMedian20}

\* the series without point p
Without(seq, p) == [i \in 1..(Len(seq) - 1) |-> IF i < p THEN seq[i] ELSE seq[i + 1]]

FourQ1 == LET v == SortFloat64s(cin.cl) IN v[5] + 3 * v[6]
FourQ3 == LET v == SortFloat64s(cin.cl) IN 3 * v[15] + v[16]

\* the close of point i lies within [Q1 - 1.5 IQR, Q3 + 1.5 IQR] (all times 8)
InsideFences(i) ==
    /\ 8 * cin.cl[i] >= 2 * FourQ1 - 3 * (FourQ3 - FourQ1)
    /\ 8 * cin.cl[i] <= 2 * FourQ3 + 3 * (FourQ3 - FourQ1)

OutlierRemovedWhenOthersVary ==
    (cpc = "done" /\ Len(cin.cl) = 20 /\ Cardinality(AtHundredTimesMedian) = 1) =>
        LET p == CHOOSE i \in AtHundredTimesMedian : TRUE
        IN  (\E i, j \in (1..20) \ {p} : cin.cl[i] # cin.cl[j])
               => (cout.ts = Without(cin.ts, p) /\ cout.cl = Without(cin.cl, p))

\* 19 closes of 10 and one of 1000 (100 times the median): the series comes
\* back with the outlier in it
FlatSeriesKeepsOutlier ==
    /\ cpc = "done" /\ Len(cin.cl) = 20 /\ Cardinality(AtHundredTimesMedian) = 1
    /\ \E p \in 1..20 : cin.cl[p] = 1000 /\ \A i \in (1..20) \ {p} : cin.cl[i] = 10
    /\ cout.cl = cin.cl

\* C23: filterIQR returns the series as it is, same pairs in the same order,
\* when it has fewer than 20 points or when all its closes are equal.
C23_ShortOrFlatSeriesUnchanged ==
    (cpc = "done"
        /\ (Len(cin.cl) < 20 \/ \A i, j \in 1..Len(cin.cl) : cin.cl[i] = cin.cl[j]))
        => (cout.ts = cin.ts /\ cout.cl = cin.cl)

\* C23 witness: a 19-point series with a close of 1200 among closes of 10..14.
C23_Witness ==
    /\ cpc = "done" /\ Len(cin.cl) = 19 /\ cout.cl = cin.cl
    /\ \E p \in 1..19 : cin.cl[p] = 1200 /\ \A i \in (1..19) \ {p} : cin.cl[i] \in 10..14

\* C23 second case: 20 equal closes.
C23_WitnessFlat ==
    /\ cpc = "done" /\ Len(cin.cl) = 20 /\ \A i \in 1..20 : cin.cl[i] = 10
    /\ cout.cl = cin.cl


(***************************************************************************)
(* Termination of fetchSeries                                              *)
(***************************************************************************)
\* every request returns (with a response or an error) and every sleep ends:
\* the step fetchSeries is waiting for is eventually taken
\* one response of every kind the control flow of fetchSeries tells apart
LiveResponses ==
    {[t |-> "neterr"], [t |-> "readerr"]}
    \cup {[t |-> "http", status |-> st, body |-> [k |-> "html"]] : st \in Statuses}
    \cup {[t |-> "http", status |-> 200, body |-> b] :
              b \in {[k |-> "edge429"], [k |-> "edge"], [k |-> "garbage"],
                     [k |-> "json", has |-> "chart", chart |-> <<>>, spark |-> <<>>],
                     [k |-> "json", has |-> "chart", chart |-> PartialChart, spark |-> <<>>],
                     [k |-> "json", has |-> "spark", chart |-> <<>>, spark |-> <<>>],
                     [k |-> "json", has |-> "spark", chart |-> <<>>, spark |-> PartialSpark],
                     [k |-> "jsontype", has |-> "chart", chart |-> PartialChart, spark |-> <<>>],
                     [k |-> "jsontype", has |-> "spark", chart |-> <<>>, spark |-> PartialSpark]}}

NextFetchLive ==
    \/ PrimaryRequestOn(LiveResponses)
    \/ PrimaryBackoff
    \/ SparkRequestOn(LiveResponses)
    \/ SparkBackoff
SpecFetchLive == InitFetch /\ [][NextFetchLive]_vars /\ WF_vars(NextFetchLive)

\* C24: every call of fetchSeries eventually returns, with a series or with
\* an error, whatever the requests answer
C24_FetchSeriesTerminates == <>(Returned /\ fresult # Nil)

\* a call in which all requests on both hosts and both schemas failed and
\* which has returned the last error
C24_Witness ==
    /\ Returned
    /\ fresult.err # Nil
    /\ Cardinality(ReqIdx("primary")) = MaxAttempts * Len(hosts)
    /\ Cardinality(ReqIdx("spark")) = MaxAttempts * Len(hosts)
    /\ \A i \in 1..Len(flog) : flog[i].ev = "req" => flog[i].res = "err"


(***************************************************************************)
(* Leading values of calculateMaxDrawdown (checked under SpecDrawdown)     *)
(***************************************************************************)
FirstPositive == SetMin({i \in 1..Len(cin.values) : cin.values[i].n > 0})

\* the largest decline from the running peak over the values from the first
\* strictly positive one on
DrawdownFromFirstPositive ==
    DrawdownLoop(cin.values, FirstPositive, cin.values[FirstPositive], RInt(0))

\* C25: the values that precede the first strictly positive value contribute
\* no drawdown: the result is the largest decline from the running peak over
\* the values from the first strictly positive one on.
C25_LeadingValuesContributeNothing ==
    (cpc = "done" /\ Len(cin.values) >= 2 /\ HasPositiveValue) =>
        cout.maxDrawdown = DrawdownFromFirstPositive

\* strictly negative leading values are skipped by `value >= 0`
NegativeLeadingValuesContributeNothing ==
    (/\ cpc = "done" /\ Len(cin.values) >= 2 /\ HasPositiveValue
     /\ \A i \in 1..(FirstPositive - 1) : cin.values[i].n < 0) =>
        cout.maxDrawdown = DrawdownFromFirstPositive

\* a rising series behind a leading zero is reported with a drawdown of 1
LeadingZeroCountsAsFullDrawdown ==
    /\ cpc = "done" /\ Len(cin.values) = 3
    /\ cin.values[1].n = 0 /\ cin.values[2].n > 0
    /\ RLess(cin.values[2], cin.values[3])
    /\ DrawdownFromFirstPositive = RInt(0)
    /\ cout.maxDrawdown = RInt(1)


(***************************************************************************)
(* Forward-fill of alignTimestamps (checked under SpecAlign)               *)
(***************************************************************************)
\* the points of an asset with a usable price at or before t
KnownAtOrBefore(asset, t) == {i \in UsablePoints(asset) : asset.Timestamps[i] <= t}

\* the price of the asset's latest such point
MostRecentPrice(asset, t) ==
    LET known == KnownAtOrBefore(asset, t)
        best == SetMax({asset.Timestamps[i] : i \in known})
    IN  asset.Prices[SetMax({i \in known : asset.Timestamps[i] = best})]

\* base timestamp number k is one the asset has no usable price at
NoExactMatch(asset, k) == cout.times[k] \notin DOMAIN PriceMap(asset)

\* C26: at every base timestamp where an asset has no exact-match price but
\* has a known price at or before it, the filled value is the asset's most
\* recent known price at or before that timestamp, wherever it was observed.
C26_FilledWithMostRecentPrice ==
    AlignOK =>
        \A i \in 1..Len(cin.assets) : \A k \in 1..Len(cout.times) :
            (/\ NoExactMatch(cin.assets[i], k)
             /\ KnownAtOrBefore(cin.assets[i], cout.times[k]) # {}) =>
                cout.prices[i][k] = MostRecentPrice(cin.assets[i], cout.times[k])

\* the same when every known price of the asset at or before the timestamp was
\* observed on the base timeline
FilledWithMostRecentBasePrice ==
    AlignOK =>
        \A i \in 1..Len(cin.assets) : \A k \in 1..Len(cout.times) :
            (/\ NoExactMatch(cin.assets[i], k)
             /\ KnownAtOrBefore(cin.assets[i], cout.times[k]) # {}
             /\ \A j \in KnownAtOrBefore(cin.assets[i], cout.times[k]) :
                    \E m \in 1..k : cout.times[m] = cin.assets[i].Timestamps[j]) =>
                cout.prices[i][k] = MostRecentPrice(cin.assets[i], cout.times[k])

\* an asset priced 2 at base timestamp 1 and 5 at timestamp 2, which is not on
\* the base timeline, is filled with 2 at base timestamp 3
StalePriceFilled ==
    /\ AlignOK /\ Len(cin.assets) = 2 /\ cout.times = <<1, 3>>
    /\ cin.assets[2].Timestamps = <<1, 2>> /\ cin.assets[2].Prices = <<2, 5>>
    /\ cout.prices[2] = <<2, 2>>


(***************************************************************************)
(* Empty documents (checked under SpecFetch)                               *)
(***************************************************************************)
\* request number i was a primary request answered 200 with a JSON document
\* whose result list, or the quote list of its first result, is empty
PrimaryEmptyDocument(i) ==
    IsReq(flog[i], "primary") /\ flog[i].res = "ok" /\ flog[i].doc = "empty"

NoDataErr == [kind |-> "nodata"]

\* C27: a primary request answered 200 with a JSON document whose result list
\* (or quote list) is empty is the last event of the call: fetchSeries has
\* returned the error "no data", with no later request or sleep and without
\* any spark request.
C27_EmptyPrimaryDocumentIsNoData ==
    \A i \in 1..Len(flog) : PrimaryEmptyDocument(i) =>
        /\ i = Len(flog)
        /\ Returned
        /\ fresult = [ts |-> <<>>, cl |-> <<>>, err |-> NoDataErr]
        /\ ReqIdx("spark") = {}

\* C27 witness: after three failed requests and a backoff the fourth primary
\* request brought a document with an empty result list.
C27_Witness ==
    /\ Len(flog) = 5 /\ PrimaryEmptyDocument(5) /\ yc = <<>>
    /\ flog[3].ev = "sleep"
    /\ Returned /\ fresult.err = NoDataErr

\* C27 second case: the document has a result whose quote list is empty.
C27_WitnessEmptyQuote ==
    /\ Len(flog) > 0 /\ PrimaryEmptyDocument(Len(flog))
    /\ Len(yc) = 1 /\ yc[1].quote = <<>>
    /\ Returned /\ fresult.err = NoDataErr

\* a document without the result key, received after a document that was
\* rejected for a type error, ends the call with the closes of the rejected one
StaleChartReturned ==
    /\ Returned /\ fresult.err = Nil /\ Len(fresult.cl) > 0
    /\ Len(flog) > 0 /\ IsReq(flog[Len(flog)], "primary") /\ flog[Len(flog)].doc = "absent"


\* the serial number of the request recorded as event i
ReqNo(i) == Cardinality({j \in 1..i : flog[j].ev = "req"})

\* event e is a spark request answered 200 with a JSON document that has no
\* result entry: the loop fell through, or the document lacked the result key
NoResultEntry(e) ==
    IsReq(e, "spark") /\ (e.res = "empty" \/ (e.res = "ok" /\ e.doc = "absent"))

\* the error in hand was recorded by a request that failed
ErrorOfFailedRequest(err) ==
    \E j \in 1..Len(flog) : flog[j].ev = "req" /\ flog[j].res = "err" /\ err.n = ReqNo(j)

\* C28: a spark response that is 200 and JSON but has no result entry is not a
\* success and records no error: the call goes on with the next host or
\* attempt, and when it ends in an error that error is the one an earlier
\* failed request left.
C28_NoResultEntryIsSkipped ==
    \A i \in 1..Len(flog) : NoResultEntry(flog[i]) =>
        /\ ~Succeeded(flog[i])
        /\ lastErr # Nil /\ lastErr.n # ReqNo(i)
        /\ (Returned /\ i = Len(flog)) =>
              (fresult.err = lastErr /\ ErrorOfFailedRequest(fresult.err))

\* the same for the requests after which the loop fell through
FallThroughIsSkipped ==
    \A i \in 1..Len(flog) : (IsReq(flog[i], "spark") /\ flog[i].res = "empty") =>
        /\ lastErr # Nil /\ lastErr.n # ReqNo(i)
        /\ (i = Len(flog) /\ ~Returned) => ENABLED (SparkRequest \/ SparkBackoff)
        /\ (Returned /\ i = Len(flog)) =>
              (fresult.err = lastErr /\ ErrorOfFailedRequest(fresult.err))

\* all eight spark responses had no result entry and the call returned the
\* error of the last primary request
AllSparkFellThrough ==
    /\ Returned /\ Cardinality(ReqIdx("spark")) = 8
    /\ \A i \in ReqIdx("spark") : flog[i].res = "empty"
    /\ fresult.err.schema = "primary" /\ fresult.err.n = 8

\* a spark document without the result key, received after a spark document
\* that was rejected for a type error, ends the call as a success carrying the
\* closes of the rejected document
StaleSparkReturned ==
    /\ Returned /\ fresult.err = Nil /\ fresult.cl = <<2, 0>>
    /\ Len(flog) > 0 /\ IsReq(flog[Len(flog)], "spark")
    /\ flog[Len(flog)].res = "ok" /\ flog[Len(flog)].doc = "absent"


(***************************************************************************)
(* The artifact cache of MakePortfolioChart and MakeWeightedPortfolioChart *)
(* (checked under SpecWeighted)                                            *)
(***************************************************************************)
Failed(r) == rpc[r] = "returned" /\ rout[r].err # Nil
HasEvent(r, e) == \E i \in 1..Len(rlog[r]) : rlog[r][i].ev = e

\* cacheSet is the step after a render that succeeded, and the last one
SetOnlyAfterRender(r) ==
    \A i \in 1..Len(rlog[r]) : rlog[r][i].ev = "set" =>
        /\ i > 1 /\ rlog[r][i - 1].ev = "backtest" /\ rlog[r][i - 1].ok
        /\ i = Len(rlog[r])
        /\ rpc[r] = "returned" /\ rout[r].err = Nil

\* a hit returns the stored artifact and nothing else happens in the call
HitReturnsStored(r) ==
    (rfound[r] # Nil /\ rfound[r].found) =>
        /\ rlog[r] = <<[ev |-> "hit"]>>
        /\ rpc[r] = "returned" /\ rout[r] = [img |-> rfound[r].img, err |-> Nil]

\* the map changes only by the cacheSet of a request that returns its image
CacheChangesOnlyBySet ==
    chartCache' # chartCache =>
        \E r \in DOMAIN rpc :
            /\ rpc[r] = "cacheSet_locked" /\ rpc'[r] = "returned"
            /\ rout'[r] = [img |-> Rendered(r), err |-> Nil]
            /\ chartCache' = Store(chartCache, KeyOf(r), now, Rendered(r))

\* C29: a call of MakePortfolioChart or MakeWeightedPortfolioChart that fails
\* leaves the cache as it was: the cache changes only in the cacheSet of a
\* call whose render succeeded, a failed call has made no cacheSet, every
\* entry is a rendered artifact, and a hit returns the stored artifact
\* without a fetch.
C29_FailureLeavesCacheUnchanged ==
    /\ [](\A r \in Active :
             /\ SetOnlyAfterRender(r)
             /\ Failed(r) => ~HasEvent(r, "set")
             /\ HitReturnsStored(r))
    /\ [](\A k \in DOMAIN chartCache : \E in \in menu : chartCache[k].image = [of |-> in])
    /\ [][CacheChangesOnlyBySet]_vars

\* C29 witness: a weighted request whose fetches succeeded failed in a later
\* stage, and the cache is still empty.
C29_Witness ==
    /\ 1 \in Active /\ req[1].kind = "wport" /\ Failed(1)
    /\ Len(rlog[1]) > 0 /\ rlog[1][Len(rlog[1])].ev = "backtest"
    /\ chartCache = <<>>

\* C29 second case: the same request is made again after a failure with an
\* entry of another request in the cache, misses and fetches again.
C29_WitnessRunsAgain ==
    /\ 1 \in Active /\ rpc[1] = "fetching" /\ HasEvent(1, "miss")
    /\ DOMAIN chartCache # {} /\ KeyOf(1) \notin DOMAIN chartCache

\* C29 third case: a hit.
C29_WitnessHit ==
    /\ 1 \in Active /\ rfound[1] # Nil /\ rfound[1].found
    /\ rpc[1] = "returned" /\ rout[1].img = [of |-> req[1]]

Weighted(in) == in.kind = "wport" /\ ~WeightsMismatch(in)

\* C30: a hit in MakeWeightedPortfolioChart returns an artifact computed for
\* a request with the same symbols in the same order, the same weights and
\* the same window (a request that differs in a weight has another key).
C30_HitIsForTheSameWeights ==
    \A r \in Active : (req[r].kind = "wport" /\ rfound[r] # Nil /\ rfound[r].found) =>
        rfound[r].img = [of |-> req[r]]

ThousandthsOnly(in) == \A i \in 1..Len(in.weights) : in.weights[i] % (WeightScale \div 1000) = 0

\* the same for requests whose weights have at most three decimals
HitIsForTheSameThousandths ==
    /\ \A r \in Active : (/\ req[r].kind = "wport" /\ rfound[r] # Nil /\ rfound[r].found
                          /\ \A in \in menu : Weighted(in) => ThousandthsOnly(in)) =>
          rfound[r].img = [of |-> req[r]]
    /\ \A a, b \in menu : (/\ Weighted(a) /\ Weighted(b) /\ a.weights # b.weights
                           /\ ThousandthsOnly(a) /\ ThousandthsOnly(b)) =>
          WeightedKey(a.symbols, a.weights, a.window) # WeightedKey(b.symbols, b.weights, b.window)

\* a request with weight 0.3004 is answered from the cache with the artifact
\* rendered for weight 0.3
RoundedWeightSharesArtifact ==
    /\ 1 \in Active /\ req[1].kind = "wport" /\ req[1].weights = <<3004>>
    /\ rfound[1] # Nil /\ rfound[1].found
    /\ rout[1].img.of.weights = <<3000>>

====
